---------------------------- MODULE Spec2Model ----------------------------
(***************************************************************************)
(* A model of the Groth16 prover core of bellperson_optimized:             *)
(*   src/src/gpu/multiexp.rs    the GPU multiexp kernel and its driver     *)
(*   src/src/groth16/prover.rs  the proving pipeline                       *)
(*                                                                         *)
(* The module holds several state machines over disjoint groups of         *)
(* variables, each with its own specification:                             *)
(*   SpecMultiexp  MultiexpKernel::multiexp, tile by tile                  *)
(*   SpecCpuGpu    only_cpu_multiexp beside MultiexpKernel::multiexp       *)
(*   SpecWindow    the window arithmetic of SingleMultiexpKernel::multiexp *)
(*   SpecKernel    the control flow of SingleMultiexpKernel::multiexp      *)
(*                 beside the jobs that take the PriorityLock              *)
(*   SpecGpuLock   MultiexpKernel::create and drop under the GPULock       *)
(*   SpecProver    create_proof_batch_priority_inner, stage by stage       *)
(*   SpecAssign    ProvingAssignment: alloc, alloc_input, enforce, extend  *)
(*   SpecAssembly  the assembly of one proof, statement by statement       *)
(*   SpecPreempt   a low-priority multiexp while other jobs take the       *)
(*                 PriorityLock                                            *)
(*   SpecRetry     SpecPreempt with every thread of the run kept running   *)
(*   SpecFft       the polynomial phase: the transforms of a, b and c on   *)
(*                 the two FFT drivers                                     *)
(* A specification keeps the variables of the other machines at rest.      *)
(***************************************************************************)
EXTENDS Naturals, Integers, Sequences, FiniteSets, Bags, TLC

VARIABLES
    \* ---- MultiexpKernel::multiexp (multiexp.rs 394-554)
    mxN,        \* argument n
    mxSkip,     \* argument skip
    mxUNum,     \* get_cpu_utilization() = mxUNum / UDen
    mxD,        \* self.kernels.len()
    mxTile,     \* the tile length in force (jack_chunk_3080)
    mxPc,       \* "start", "gpu", "done"
    mxChunks,   \* the chunks of the GPU slice, bases.par_chunks(chunk_size)
    mxJobs,     \* the zipped (chunk, kernel) pairs the map closure runs on
    mxCalls,    \* every SingleMultiexpKernel::multiexp call made so far
    mxResult,   \* the value multiexp returns
    \* ---- only_cpu_multiexp (multiexp.rs 249-337)
    cpuCalls,   \* every multiexp_with_cpu call made: slice and core ids
    cpuResult,  \* the value only_cpu_multiexp returns
    \* ---- SingleMultiexpKernel::multiexp, arithmetic (multiexp.rs 145-245)
    wCore,      \* self.core_count
    wW,         \* jack_windows_size
    wExps,      \* exps, each an ExpBits-bit number
    wPc,        \* "entry", "acc", "done"
    wResults,   \* results, read back from result_buffer
    wAcc,       \* acc
    wBits,      \* bits
    wI,         \* the loop index i
    wWidths,    \* the w of every loop turn so far
    \* ---- SingleMultiexpKernel::multiexp, control (multiexp.rs 131-246)
    \*      beside the PriorityLock; job 0 is the run that owns the kernel
    plHolder,   \* the jobs holding the PriorityLock: none or one
    plWaiting,  \* the jobs blocked in PriorityLock::lock()
    kPriority,  \* self.priority
    kPc,        \* "idle", "entry", "buffers", "kernel", "read", "done"
    kBuffers,   \* device buffers created by the call in progress
    kLaunched,  \* whether the call in progress has launched the kernel
    kPolls,     \* how often the call in progress consulted should_break
    kResult,    \* "none", "Ok", "GPUTaken", "Err"
    \* ---- MultiexpKernel::create and drop (multiexp.rs 340-392), one
    \*      creator per thread or process of the host
    glOwner,    \* the creators holding the GPULock: none or one
    mkPc,       \* per creator: "idle", "lock", "devices", "kernels", "live",
                \* "dropping"
    mkDevs,     \* per creator: devices not yet turned into kernels
    mkKernels,  \* per creator: kernels.len()
    mkFailed,   \* per creator: devices of this create whose kernel failed
    mkResult,   \* per creator: "none", or what its last create returned
    \* ---- create_proof_batch_priority_inner (prover.rs 292-930)
    pK,         \* circuits.len(), also r_s.len() and s_s.len()
    pPriority,  \* priority
    pDelta,     \* "ok", or which of vk.delta_g1 / vk.delta_g2 is zero
    pPc,        \* the stage the main thread is in
    pStep,      \* progress inside the stage: provers or multiexps done
    pFails,     \* multiexps that have failed so far
    pPrioHeld,  \* prio_lock is Some(..)
    pCpuDone,   \* multiexps the CPU worker of the phase has finished
    pGpuList,   \* gpu_result_list of the phase, as far as computed
    pGpuPc,     \* the GPU worker of the phase: "map", "send", "end"
    pCpuCh,     \* messages sent on the phase's CPU channel
    pGpuCh,     \* messages sent on the phase's GPU channel
    pHs,        \* h_s
    pLs,        \* l_s
    pInputs,    \* inputs
    pProofs,    \* the proofs returned
    pOutcome,   \* "running", "ok", "err", "identity", "panic", or
                \* "fft_err": the Err of the polynomial phase
    pFfts,      \* history: provers whose polynomial phase has completed
    pMsmDone,   \* history: <<kind, prover>> of the multiexps completed
    pFailedHL,  \* history: <<kind, prover>> of the H, L multiexps failed
    pCpuList,   \* history: the multiexps the CPU worker of the phase made
    pGpuLock,   \* which LockedMultiexpKernel of the run holds the GPULock:
                \* "none", "H", "L" (the GPU workers'), "inputs" (line 607)
    \* ---- ProvingAssignment (prover.rs 68-251) and the size check (329-339)
    aAsg,       \* per slot: a ProvingAssignment that began with the one input
    aOps,       \* per slot: the alloc / alloc_input / enforce calls it took
    aCount,     \* the number of calls made so far
    aCheck,     \* "none", "built", or the size check's "proceed", "abort"
    aRet,       \* what the last call returned: "unit", "Ok" or "Err"
    \* ---- the assembly closure of one proof (prover.rs 876-922)
    fR, fS,     \* the closure's r and s
    fVk,        \* vk: alpha_g1, beta_g1, beta_g2, delta_g1, delta_g2
    fPc,        \* the statement the closure is at
    fGa, fGb, fGc,          \* g_a, g_b, g_c
    fAAnswer,   \* a_answer
    fB1Answer,  \* b1_answer
    fB2Answer,  \* b2_answer
    fResult,    \* "none", "UnexpectedIdentity", "Err", "Ok"
    fProof,     \* the Proof of an Ok result
    \* ---- a multiexp of a low-priority run under the locked wrapper
    qRestarts,  \* the times the wrapper dropped its kernel and retried
    \* ---- the polynomial phase (prover.rs 440-491); thread "main" runs
    \*      the map closure, "a" and "b" the closures of the scoped pool
    tK,         \* provers.len()
    tProver,    \* the prover whose closure runs, counted from 0
    tMain,      \* "start", "scope", "seq", "drop", "done"
    tTodo,      \* per thread: the transforms it has yet to finish
    tRun,       \* per thread: whether the first of them is in progress
    tOp,        \* per FFT driver: the transforms in progress on it
    tKern,      \* the drivers whose kernel is Some: they hold the GPULock
    tDone       \* history: the transforms finished for this prover

mxVars == <<mxN, mxSkip, mxUNum, mxD, mxTile, mxPc, mxChunks, mxJobs, mxCalls,
            mxResult, cpuCalls, cpuResult>>

winVars == <<wCore, wW, wExps, wPc, wResults, wAcc, wBits, wI, wWidths>>

kernVars == <<plHolder, plWaiting, kPriority, kPc, kBuffers, kLaunched,
              kPolls, kResult>>

lockVars == <<glOwner, mkPc, mkDevs, mkKernels, mkFailed, mkResult>>

proverVars == <<pK, pPriority, pDelta, pPc, pStep, pFails, pPrioHeld, pCpuDone,
                pGpuList, pGpuPc, pCpuCh, pGpuCh, pHs, pLs, pInputs, pProofs,
                pOutcome, pFfts, pMsmDone, pFailedHL, pCpuList, pGpuLock>>

asgVars == <<aAsg, aOps, aCount, aCheck, aRet>>

finVars == <<fR, fS, fVk, fPc, fGa, fGb, fGc, fAAnswer, fB1Answer, fB2Answer,
             fResult, fProof>>

preVars == <<qRestarts>>

fftVars == <<tK, tProver, tMain, tTodo, tRun, tOp, tKern, tDone>>

vars == <<mxVars, winVars, kernVars, lockVars, proverVars, asgVars, finVars,
          preVars, fftVars>>

\* what the actions of one machine leave alone
NotMx == <<winVars, kernVars, lockVars, proverVars, asgVars,
    finVars, preVars, fftVars>>
NotWin == <<mxVars, kernVars, lockVars, proverVars, asgVars,
    finVars, preVars, fftVars>>
NotKern == <<mxVars, winVars, lockVars, proverVars, asgVars,
    finVars, preVars, fftVars>>
NotLock == <<mxVars, winVars, kernVars, proverVars, asgVars,
    finVars, preVars, fftVars>>
NotProver == <<mxVars, winVars, kernVars, lockVars, asgVars,
    finVars, preVars, fftVars>>
NotAsg == <<mxVars, winVars, kernVars, lockVars, proverVars, finVars,
    preVars, fftVars>>
NotFin == <<mxVars, winVars, kernVars, lockVars, proverVars, asgVars,
    preVars, fftVars>>
NotFft == <<mxVars, winVars, kernVars, lockVars, proverVars, asgVars,
    finVars, preVars>>

-----------------------------------------------------------------------------
(* Bounds of the model.                                                    *)

\* largest n of a MultiexpKernel::multiexp call in SpecMultiexp
MaxN == 4
\* largest skip
MaxSkip == 1
\* get_cpu_utilization() ranges over 0/UDen .. UDen/UDen
UDen == 2
\* largest number of working devices
MaxDevices == 3
\* tile length of SpecMultiexp, standing for jack_chunk_3080 scaled down so
\* that a device chunk holds more than one tile
TileLen == 2
\* largest N of SpecCpuGpu
MaxCpuN == 84
\* width of an exponent in SpecWindow, standing for exp_size::<E>() * 8
ExpBits == 3
\* largest window size of SpecWindow
MaxWindow == 4
\* largest core_count of SpecWindow
MaxCore == 3
\* largest number of (base, exponent) pairs of SpecWindow
MaxPairs == 2
\* number of other high-priority jobs of SpecKernel
NumOthers == 2
\* number of threads and processes that create MultiexpKernels
NumCreators == 3
\* largest batch of SpecProver
MaxProvers == 4
\* most multiexps that fail in one run of SpecProver
MaxFails == 1
\* the retries of the locked wrapper in one run
MaxRestarts == 2
\* the calls made on the assignments of one run
MaxOps == 3
\* the scalar field is the integers modulo FieldP
FieldP == 3

(* Program constants.                                                      *)

\* let jack_chunk_3080 = 33554466;
jack_chunk_3080 == 33554466
\* base_buffer, exp_buffer, bucket_buffer, result_buffer
num_buffers == 4
\* let percent = 2;
percent == 2
\* a_inputs, a_aux, b_g1_inputs, b_g1_aux, b_g2_inputs, b_g2_aux
num_input_msms == 6
\* vec![CoreId{id: 125}, CoreId{id: 126}].len()
gpu_core_ids_len == 2
\* let used_core = 4;
used_core == 4
\* for i in 1..64 { cpu_core_ids.push(i) }: the ids are 1 .. 63
cpu_core_ids_last == 63

-----------------------------------------------------------------------------
(* Arithmetic helpers.                                                     *)

Min(a, b) == IF a <= b THEN a ELSE b

\* ((a as f64) / (b as f64)).ceil() as usize, for b > 0
CeilDiv(a, b) == (a + b - 1) \div b

RECURSIVE SeqSum(_, _)
\* folds a sequence of bags with add_assign, from the zero element
SeqSum(s, i) == IF i > Len(s) THEN EmptyBag ELSE s[i] (+) SeqSum(s, i + 1)

-----------------------------------------------------------------------------
(* Group elements of the driver level.                                     *)
(* A multiexp over generic bases and exponents is determined by how often  *)
(* each term exps[e] * bases[b] enters it.  A projective result is         *)
(* therefore a bag of terms <<b, e>>: zero() is the empty bag and          *)
(* add_assign is bag sum.  b and e index the vectors the caller passed.    *)

\* a slice pair: bases[b .. b+len) beside exps[e .. e+len)
Slice(b, e, len) == [b |-> b, e |-> e, len |-> len]

\* the exact multiexp of a slice pair: every aligned term once
SliceSum(s) == SetToBag({<<s.b + j, s.e + j>> : j \in 0 .. s.len - 1})

\* bases[skip .. skip+n) against exps[.. n): what the contract promises
ContractSum(skip, n) == SliceSum(Slice(skip, 0, n))

\* slice.split_at(k): the prefix and the remainder
SplitAtLeft(s, k) == Slice(s.b, s.e, k)
SplitAtRight(s, k) == Slice(s.b + k, s.e + k, s.len - k)

\* slice.chunks(cs) / par_chunks(cs) for cs > 0: consecutive pieces of cs
\* elements, the last one possibly shorter
Chunks(s, cs) ==
    [k \in 1 .. CeilDiv(s.len, cs) |->
        Slice(s.b + (k - 1) * cs, s.e + (k - 1) * cs,
              Min(cs, s.len - (k - 1) * cs))]

-----------------------------------------------------------------------------
(* MultiexpKernel::multiexp, multiexp.rs 394-554.                          *)
(* SingleMultiexpKernel::multiexp is taken here by its contract: on a tile *)
(* it returns the exact sum of the tile or an error.  Its arithmetic is    *)
(* modelled bit by bit in SpecWindow.                                      *)

\* let cpu_n = ((n as f64) * get_cpu_utilization()) as usize;
cpu_n(n, uNum) == (n * uNum) \div UDen

\* let chunk_size = ((n as f64) / (num_devices as f64)).ceil() as usize;
chunk_size(n, d) == CeilDiv(n, d)

\* bases.par_chunks(chunk_size).zip(exps.par_chunks(chunk_size)), guarded by
\* `if n > 0`: the chunks of the GPU slice
GpuChunks(skip, n, uNum, d) ==
    LET c    == cpu_n(n, uNum)
        rest == SplitAtRight(Slice(skip, 0, n), c)
    IN  IF n - c > 0 THEN Chunks(rest, chunk_size(n - c, d)) ELSE <<>>

\* .zip(self.kernels.par_iter_mut()).zip(gpu_core_ids.par_iter_mut()): a zip
\* is as long as its shortest side; chunk k meets kernel k
ZipLen(numChunks, d) == Min(Min(numChunks, d), gpu_core_ids_len)

ZipJobs(chunks, d) ==
    [k \in 1 .. ZipLen(Len(chunks), d) |->
        [chunk |-> chunks[k], kern |-> k, pos |-> 0, acc |-> EmptyBag,
         st |-> "run"]]

\* tiles one element longer than the tile length
TilesTooLong(job, tile) == Chunks(job.chunk, tile + 1)

\* for (bases, exps) in bases.chunks(jack_chunk_3080).zip(exps.chunks(..))
Tiles(job, tile) == Chunks(job.chunk, tile)

\* a tile loop that goes on to the next tile when a kernel call fails
TileStepSkipFailed(job, tile, ok) ==
    LET ts == Tiles(job, tile)
        t  == ts[job.pos + 1]
    IN  [job EXCEPT !.pos = job.pos + 1,
                    !.acc = IF ok THEN job.acc (+) SliceSum(t) ELSE job.acc,
                    !.st  = IF job.pos + 1 = Len(ts) THEN "ok" ELSE "run"]

\* one turn of the tile loop of the map closure:
\*   let result = kern.multiexp(bases, exps, bases.len(), w)?;
\*   acc.add_assign(&result);
\* and Ok(acc) after the last tile
TileStep(job, tile, ok) ==
    LET ts == Tiles(job, tile)
        t  == ts[job.pos + 1]
    IN  IF ok
        THEN [job EXCEPT !.pos = job.pos + 1,
                         !.acc = job.acc (+) SliceSum(t),
                         !.st  = IF job.pos + 1 = Len(ts) THEN "ok" ELSE "run"]
        ELSE [job EXCEPT !.st = "err"]

RECURSIVE CollectFrom(_, _, _)
\* for r in gpu_results { acc.add_assign(&r?); } Ok(acc)
CollectFrom(jobs, i, acc) ==
    IF i > Len(jobs) THEN [ok |-> TRUE, val |-> acc]
    ELSE IF jobs[i].st = "err" THEN [ok |-> FALSE, val |-> EmptyBag]
    ELSE CollectFrom(jobs, i + 1, acc (+) jobs[i].acc)

\* a fold that leaves failed chunks out instead of returning their error
CollectResultsOkOnly(jobs) ==
    [ok |-> TRUE,
     val |-> SeqSum([k \in 1 .. Len(jobs) |->
                       IF jobs[k].st = "err" THEN EmptyBag ELSE jobs[k].acc], 1)]

CollectResults(jobs) == CollectFrom(jobs, 1, EmptyBag)

NoResult == [ok |-> FALSE, val |-> EmptyBag]

\* lines 406-415 and the zip of 446-450
MxSplit ==
    /\ mxPc = "start"
    /\ mxChunks' = GpuChunks(mxSkip, mxN, mxUNum, mxD)
    /\ mxJobs' = ZipJobs(mxChunks', mxD)
    /\ mxPc' = "gpu"
    /\ UNCHANGED <<mxN, mxSkip, mxUNum, mxD, mxTile, mxCalls, mxResult,
                   cpuCalls, cpuResult>>
    /\ UNCHANGED NotMx

\* lines 463-468: device k runs the next tile of its chunk; the kernel call
\* succeeds or returns an error
MxTile(k, ok) ==
    /\ mxPc = "gpu"
    /\ k \in 1 .. Len(mxJobs)
    /\ mxJobs[k].st = "run"
    /\ mxJobs' = [mxJobs EXCEPT ![k] = TileStep(mxJobs[k], mxTile, ok)]
    /\ mxCalls' = mxCalls \cup
          {[kern |-> mxJobs[k].kern, chunk |-> k,
            tile |-> Tiles(mxJobs[k], mxTile)[mxJobs[k].pos + 1], ok |-> ok]}
    /\ UNCHANGED <<mxN, mxSkip, mxUNum, mxD, mxTile, mxPc, mxChunks, mxResult,
                   cpuCalls, cpuResult>>
    /\ UNCHANGED NotMx

\* lines 475 and 530-552: the results are sent, received and folded
MxCollect ==
    /\ mxPc = "gpu"
    /\ \A k \in 1 .. Len(mxJobs) : mxJobs[k].st # "run"
    /\ mxResult' = CollectResults(mxJobs)
    /\ mxPc' = "done"
    /\ UNCHANGED <<mxN, mxSkip, mxUNum, mxD, mxTile, mxChunks, mxJobs, mxCalls,
                   cpuCalls, cpuResult>>
    /\ UNCHANGED NotMx

-----------------------------------------------------------------------------
(* only_cpu_multiexp, multiexp.rs 249-337.  multiexp_with_cpu is taken by  *)
(* its contract, the exact sum of the chunk it is given.                   *)

\* let per_core_chunk_size = ((cpu_bases.len() as f64) / (used_core as f64)).ceil()
per_core_chunk_size(n) == CeilDiv(n, used_core)

\* cpu_core_ids.par_chunks(per_core_chunk_size): chunk k of the ids 1 .. 63
CoreIdChunk(k, pcs) ==
    {i \in 1 .. cpu_core_ids_last : (k - 1) * pcs < i /\ i <= k * pcs}

\* cpu_bases.par_chunks(pcs).zip(cpu_exps.par_chunks(pcs))
\*          .zip(cpu_core_ids.par_chunks(pcs)): as long as the shortest side
CpuZipLen(n, pcs) == Min(CeilDiv(n, pcs), CeilDiv(cpu_core_ids_last, pcs))

\* the multiexp_with_cpu calls of one only_cpu_multiexp(bases, exps, skip, _)
\* with exps.len() = n
CpuJobs(skip, n) ==
    LET pcs == per_core_chunk_size(n)
        cs  == Chunks(Slice(skip, 0, n), pcs)
    IN  IF n > 0
        THEN [k \in 1 .. CpuZipLen(n, pcs) |->
                 [chunk |-> cs[k], core_ids |-> CoreIdChunk(k, pcs)]]
        ELSE <<>>

\* for r in cpu_results { acc.add_assign(&r?); } Ok(acc)
only_cpu_multiexp(skip, n) ==
    LET js == CpuJobs(skip, n)
    IN  [ok |-> TRUE,
         val |-> SeqSum([k \in 1 .. Len(js) |-> SliceSum(js[k].chunk)], 1)]

OnlyCpu ==
    /\ cpuCalls = <<>> /\ ~cpuResult.ok
    /\ cpuCalls' = CpuJobs(mxSkip, mxN)
    /\ cpuResult' = only_cpu_multiexp(mxSkip, mxN)
    /\ UNCHANGED <<mxN, mxSkip, mxUNum, mxD, mxTile, mxPc, mxChunks, mxJobs,
                   mxCalls, mxResult>>
    /\ UNCHANGED NotMx

-----------------------------------------------------------------------------
(* SingleMultiexpKernel::multiexp, the arithmetic of a call that passes    *)
(* the entry check and whose device operations succeed, multiexp.rs        *)
(* 145-245.  Group elements are integers under addition; base j is the     *)
(* generic element 2^(ExpBits*(j-1)), so that the result determines every  *)
(* coefficient.  The device program is not in the source files: the kernel *)
(* is modelled from the specification, one thread per (group, window).     *)

RECURSIVE Pow2(_)
Pow2(k) == IF k = 0 THEN 1 ELSE 2 * Pow2(k - 1)

\* bases[j-1]
Base(j) == Pow2(ExpBits * (j - 1))

RECURSIVE NaiveSumFrom(_, _)
NaiveSumFrom(exps, j) ==
    IF j > Len(exps) THEN 0 ELSE exps[j] * Base(j) + NaiveSumFrom(exps, j + 1)

\* the sum of e_i * B_i
NaiveSum(exps) == NaiveSumFrom(exps, 1)

\* let num_windows = ((exp_bits as f64) / (jack_windows_size as f64)).ceil()
num_windows(w) == CeilDiv(ExpBits, w)

\* a group count that is rounded up
calc_num_groupsRoundedUp(core_count, nw) == CeilDiv(2 * core_count, nw)

\* fn calc_num_groups(core_count, num_windows): 2 * core_count / num_windows
calc_num_groups(core_count, nw) == (2 * core_count) \div nw

\* let bucket_len = 1 << jack_windows_size;
bucket_len(w) == Pow2(w)

\* create_buffer::<Projective>(2 * self.core_count * bucket_len)
bucket_buffer_len(core_count, w) == 2 * core_count * bucket_len(w)

\* create_buffer::<Projective>(2 * self.core_count)
result_buffer_len(core_count) == 2 * core_count

\* the device kernel: thread gid works in the bucket_len buckets that begin
\* at gid * bucket_len, so ng * nw threads reach up to this bucket
BucketsUsed(ng, nw, w) == ng * nw * bucket_len(w)

\* the w bits of e that start `skip` bits below its most significant bit
GetBits(e, skip, w) == (e \div Pow2(ExpBits - skip - w)) % Pow2(w)

\* the elements group g works on: a contiguous ceil(n / num_groups) of them
GroupElems(g, n, ng) ==
    {j \in 1 .. n : g * CeilDiv(n, ng) < j /\ j <= (g + 1) * CeilDiv(n, ng)}

RECURSIVE SumOver(_, _, _, _)
SumOver(S, exps, skip, w) ==
    IF S = {} THEN 0
    ELSE LET j == CHOOSE x \in S : TRUE
         IN  GetBits(exps[j], skip, w) * Base(j)
                 + SumOver(S \ {j}, exps, skip, w)

\* the device kernel: thread gid = g * num_windows + i leaves in results[gid]
\* the partial sum of window i over the elements of group g
KernelResults(exps, ng, nw, w) ==
    [gid1 \in 1 .. ng * nw |->
        LET g == (gid1 - 1) \div nw
            i == (gid1 - 1) % nw
        IN  SumOver(GroupElems(g, Len(exps), ng), exps, i * w,
                    Min(w, ExpBits - i * w))]

RECURSIVE Doubled(_, _)
\* for _ in 0..w { acc.double(); }
Doubled(acc, w) == IF w = 0 THEN acc ELSE Doubled(2 * acc, w - 1)

RECURSIVE AddGroups(_, _, _, _, _, _)
\* for g in 0..num_groups { acc.add_assign(&results[g * num_windows + i]); }
AddGroups(acc, results, g, ng, nw, i) ==
    IF g >= ng THEN acc
    ELSE AddGroups(acc + results[g * nw + i + 1], results, g + 1, ng, nw, i)

\* a width that is never cut to the bits that are left
WindowWidthUnclamped(window_size, bits) == window_size

\* let w = std::cmp::min(window_size, exp_bits - bits);
WindowWidth(window_size, bits) == Min(window_size, ExpBits - bits)

\* lines 145-150 and 185-228: the sizes are computed, the kernel runs and
\* its num_groups * num_windows results are read back
WLaunch ==
    /\ wPc = "entry"
    /\ wResults' = KernelResults(wExps,
                       calc_num_groups(wCore, num_windows(wW)),
                       num_windows(wW), wW)
    /\ wPc' = "acc"
    /\ UNCHANGED <<wCore, wW, wExps, wAcc, wBits, wI, wWidths>>
    /\ UNCHANGED NotWin

\* lines 234-243: one turn of the loop over the windows
WWindow ==
    /\ wPc = "acc"
    /\ wI < num_windows(wW)
    /\ LET w == WindowWidth(wW, wBits)
       IN  /\ wAcc' = AddGroups(Doubled(wAcc, w), wResults, 0,
                          calc_num_groups(wCore, num_windows(wW)),
                          num_windows(wW), wI)
           /\ wBits' = wBits + w
           /\ wWidths' = Append(wWidths, w)
    /\ wI' = wI + 1
    /\ UNCHANGED <<wCore, wW, wExps, wPc, wResults>>
    /\ UNCHANGED NotWin

\* line 245: Ok(acc)
WReturn ==
    /\ wPc = "acc"
    /\ wI = num_windows(wW)
    /\ wPc' = "done"
    /\ UNCHANGED <<wCore, wW, wExps, wResults, wAcc, wBits, wI, wWidths>>
    /\ UNCHANGED NotWin

-----------------------------------------------------------------------------
(* SingleMultiexpKernel::multiexp, control flow, multiexp.rs 131-246, and  *)
(* the PriorityLock.  locks.rs is not among the source files: the lock and *)
(* should_break are modelled from the specification.  Job 0 is the run     *)
(* that owns the kernel; with priority = true it holds the PriorityLock    *)
(* while it uses the kernel (prover.rs 428-433, 862-864).  The other jobs  *)
(* are high-priority runs: a run with priority = false never touches the   *)
(* lock.                                                                   *)

Others == 1 .. NumOthers

\* PriorityLock::should_break(priority): a high-priority job holds the lock
\* and the asking kernel is not a priority kernel
should_break(priority) == ~priority /\ plHolder # {}

\* PriorityLock::lock() of job j: taken when free, else the job blocks
PrioLock(j) ==
    /\ j \notin plHolder /\ j \notin plWaiting
    /\ IF plHolder = {}
       THEN plHolder' = {j} /\ UNCHANGED plWaiting
       ELSE plWaiting' = plWaiting \cup {j} /\ UNCHANGED plHolder

\* a blocked lock() returns once the lock is free
PrioAcquire(j) ==
    /\ j \in plWaiting /\ plHolder = {}
    /\ plHolder' = {j}
    /\ plWaiting' = plWaiting \ {j}

\* drop(prio_lock)
PrioUnlock(j) ==
    /\ plHolder = {j}
    /\ plHolder' = {}
    /\ UNCHANGED plWaiting

OtherLock(j) ==
    /\ PrioLock(j)
    /\ UNCHANGED <<kPriority, kPc, kBuffers, kLaunched, kPolls, kResult>>
    /\ UNCHANGED NotKern

OtherAcquire(j) ==
    /\ PrioAcquire(j)
    /\ UNCHANGED <<kPriority, kPc, kBuffers, kLaunched, kPolls, kResult>>
    /\ UNCHANGED NotKern

OtherUnlock(j) ==
    /\ PrioUnlock(j)
    /\ UNCHANGED <<kPriority, kPc, kBuffers, kLaunched, kPolls, kResult>>
    /\ UNCHANGED NotKern

\* prover.rs 429-433: if priority { Some(PriorityLock::lock()) } else { None }
MeLock ==
    /\ kPriority /\ kPc = "idle"
    /\ PrioLock(0) \/ PrioAcquire(0)
    /\ UNCHANGED <<kPriority, kPc, kBuffers, kLaunched, kPolls, kResult>>
    /\ UNCHANGED NotKern

\* prover.rs 864: drop(prio_lock)
MeUnlock ==
    /\ kPc = "idle"
    /\ PrioUnlock(0)
    /\ UNCHANGED <<kPriority, kPc, kBuffers, kLaunched, kPolls, kResult>>
    /\ UNCHANGED NotKern

\* the run calls kern.multiexp(..): a priority run does so under its lock
KCall ==
    /\ kPc = "idle"
    /\ kPriority => plHolder = {0}
    /\ kPc' = "entry"
    /\ UNCHANGED <<plHolder, plWaiting, kPriority, kBuffers, kLaunched, kPolls,
                   kResult>>
    /\ UNCHANGED NotKern

\* the check made once the base buffer exists instead of first
KEntryAfterBuffer ==
    /\ kPc = "entry"
    /\ kPolls' = kPolls + 1
    /\ kBuffers' = 1
    /\ IF should_break(kPriority)
       THEN kResult' = "GPUTaken" /\ kPc' = "done"
       ELSE kResult' = kResult /\ kPc' = "buffers"
    /\ UNCHANGED <<plHolder, plWaiting, kPriority, kLaunched>>
    /\ UNCHANGED NotKern

\* the check made without regard to self.priority
KEntryAnyPriority ==
    /\ kPc = "entry"
    /\ kPolls' = kPolls + 1
    /\ IF should_break(FALSE)
       THEN kResult' = "GPUTaken" /\ kPc' = "done"
       ELSE kResult' = kResult /\ kPc' = "buffers"
    /\ UNCHANGED <<plHolder, plWaiting, kPriority, kBuffers, kLaunched>>
    /\ UNCHANGED NotKern

\* lines 141-143:
\*   if locks::PriorityLock::should_break(self.priority) {
\*       return Err(GPUError::GPUTaken); }
KEntry ==
    /\ kPc = "entry"
    /\ kPolls' = kPolls + 1
    /\ IF should_break(kPriority)
       THEN kResult' = "GPUTaken" /\ kPc' = "done"
       ELSE kResult' = kResult /\ kPc' = "buffers"
    /\ UNCHANGED <<plHolder, plWaiting, kPriority, kBuffers, kLaunched>>
    /\ UNCHANGED NotKern

\* lines 185-196: the four create_buffer(..)? and the two write_from(..)?,
\* each of which may fail
KBuffer(ok) ==
    /\ kPc = "buffers"
    /\ IF ok
       THEN /\ kBuffers' = kBuffers + 1
            /\ kPc' = IF kBuffers + 1 = num_buffers THEN "kernel" ELSE "buffers"
            /\ UNCHANGED kResult
       ELSE /\ kResult' = "Err" /\ kPc' = "done"
            /\ UNCHANGED kBuffers
    /\ UNCHANGED <<plHolder, plWaiting, kPriority, kLaunched, kPolls>>
    /\ UNCHANGED NotKern

\* lines 203-225: create_kernel, which fails for a curve that is neither G1
\* nor G2, and call_kernel!(..)?
KLaunch(ok) ==
    /\ kPc = "kernel"
    /\ IF ok
       THEN kLaunched' = TRUE /\ kPc' = "read" /\ UNCHANGED kResult
       ELSE kResult' = "Err" /\ kPc' = "done" /\ UNCHANGED kLaunched
    /\ UNCHANGED <<plHolder, plWaiting, kPriority, kBuffers, kPolls>>
    /\ UNCHANGED NotKern

\* lines 227-245: result_buffer.read_into(..)?, the loop over the windows,
\* Ok(acc)
KRead(ok) ==
    /\ kPc = "read"
    /\ kResult' = IF ok THEN "Ok" ELSE "Err"
    /\ kPc' = "done"
    /\ UNCHANGED <<plHolder, plWaiting, kPriority, kBuffers, kLaunched, kPolls>>
    /\ UNCHANGED NotKern

\* the call has returned; its buffers are gone with it
KReturn ==
    /\ kPc = "done"
    /\ kPc' = "idle" /\ kBuffers' = 0 /\ kLaunched' = FALSE /\ kPolls' = 0
    /\ kResult' = "none"
    /\ UNCHANGED <<plHolder, plWaiting, kPriority>>
    /\ UNCHANGED NotKern

-----------------------------------------------------------------------------
(* MultiexpKernel::create and the drop of a MultiexpKernel, multiexp.rs    *)
(* 340-392.  GPULock is in locks.rs, which is not among the source files:  *)
(* it is modelled from the specification as a host-wide mutual exclusion   *)
(* lock, released when its guard is dropped.                               *)

Creators == 1 .. NumCreators

\* locks::GPULock::lock(): returns once no other guard exists
GPULock_lock(p) == glOwner = {} /\ glOwner' = {p}

\* the drop of a GPULock guard
GPULock_drop(p) == glOwner' = glOwner \ {p}

\* a thread calls MultiexpKernel::create(priority)
MkCreate(p) ==
    /\ mkPc[p] = "idle"
    /\ mkPc' = [mkPc EXCEPT ![p] = "lock"]
    /\ mkFailed' = [mkFailed EXCEPT ![p] = 0]
    /\ mkResult' = [mkResult EXCEPT ![p] = "none"]
    /\ UNCHANGED <<glOwner, mkDevs, mkKernels>>
    /\ UNCHANGED NotLock

\* a create that goes on to the devices without taking the lock
MkLockSkipped(p) ==
    /\ mkPc[p] = "lock"
    /\ mkPc' = [mkPc EXCEPT ![p] = "devices"]
    /\ UNCHANGED <<glOwner, mkDevs, mkKernels, mkFailed, mkResult>>
    /\ UNCHANGED NotLock

\* line 353: let lock = locks::GPULock::lock();
MkLock(p) ==
    /\ mkPc[p] = "lock"
    /\ GPULock_lock(p)
    /\ mkPc' = [mkPc EXCEPT ![p] = "devices"]
    /\ UNCHANGED <<mkDevs, mkKernels, mkFailed, mkResult>>
    /\ UNCHANGED NotLock

\* line 355: let devices = opencl::Device::all()?; an error returns and
\* drops the local guard
MkDevices(p, ok, n) ==
    /\ mkPc[p] = "devices"
    /\ IF ok
       THEN /\ mkPc' = [mkPc EXCEPT ![p] = "kernels"]
            /\ mkDevs' = [mkDevs EXCEPT ![p] = n]
            /\ UNCHANGED <<glOwner, mkResult>>
       ELSE /\ mkPc' = [mkPc EXCEPT ![p] = "idle"]
            /\ mkResult' = [mkResult EXCEPT ![p] = "Err"]
            /\ GPULock_drop(p)
            /\ UNCHANGED mkDevs
    /\ UNCHANGED <<mkKernels, mkFailed>>
    /\ UNCHANGED NotLock

\* lines 357-370: SingleMultiexpKernel::create(d, priority) per device; a
\* device whose kernel fails to initialise is logged and left out
MkInitDevice(p, ok) ==
    /\ mkPc[p] = "kernels" /\ mkDevs[p] > 0
    /\ mkDevs' = [mkDevs EXCEPT ![p] = mkDevs[p] - 1]
    /\ mkKernels' = [mkKernels EXCEPT ![p] = IF ok THEN mkKernels[p] + 1
                                             ELSE mkKernels[p]]
    /\ mkFailed' = [mkFailed EXCEPT ![p] = IF ok THEN mkFailed[p]
                                           ELSE mkFailed[p] + 1]
    /\ UNCHANGED <<glOwner, mkPc, mkResult>>
    /\ UNCHANGED NotLock

\* a create without the kernels.is_empty() test
MkFinishUnchecked(p) ==
    /\ mkPc[p] = "kernels" /\ mkDevs[p] = 0
    /\ mkPc' = [mkPc EXCEPT ![p] = "live"]
    /\ mkResult' = [mkResult EXCEPT ![p] = "Ok"]
    /\ UNCHANGED <<glOwner, mkDevs, mkKernels, mkFailed>>
    /\ UNCHANGED NotLock

\* lines 372-391: no kernel is an error, which drops the guard; otherwise
\* the MultiexpKernel is returned with the guard in its _lock field
MkFinish(p) ==
    /\ mkPc[p] = "kernels" /\ mkDevs[p] = 0
    /\ IF mkKernels[p] = 0
       THEN /\ mkPc' = [mkPc EXCEPT ![p] = "idle"]
            /\ mkResult' = [mkResult EXCEPT ![p] = "Err"]
            /\ GPULock_drop(p)
       ELSE /\ mkPc' = [mkPc EXCEPT ![p] = "live"]
            /\ mkResult' = [mkResult EXCEPT ![p] = "Ok"]
            /\ UNCHANGED glOwner
    /\ UNCHANGED <<mkDevs, mkKernels, mkFailed>>
    /\ UNCHANGED NotLock

\* lines 344-345: the fields drop in declaration order, kernels first
MkDropKernels(p) ==
    /\ mkPc[p] = "live"
    /\ mkPc' = [mkPc EXCEPT ![p] = "dropping"]
    /\ mkKernels' = [mkKernels EXCEPT ![p] = 0]
    /\ UNCHANGED <<glOwner, mkDevs, mkFailed, mkResult>>
    /\ UNCHANGED NotLock

\* ... and _lock after them
MkDropLock(p) ==
    /\ mkPc[p] = "dropping"
    /\ mkPc' = [mkPc EXCEPT ![p] = "idle"]
    /\ GPULock_drop(p)
    /\ UNCHANGED <<mkDevs, mkKernels, mkFailed, mkResult>>
    /\ UNCHANGED NotLock

\* a MultiexpKernel value of creator p exists
MkExists(p) == mkPc[p] \in {"live", "dropping"}

-----------------------------------------------------------------------------
(* create_proof_batch_priority_inner, prover.rs 292-930.  Provers are      *)
(* numbered from 0 as in the source.  A multiexp result is the record of   *)
(* which prover's data it was computed from, by which worker, and whether  *)
(* it is Ok; a proof is the record of the provers its parts came from.     *)
(* The circuits synthesise without error and have equal sizes; the       *)
(* polynomial phase of a prover may return an error.  The                  *)
(* multiexp wrappers (multiexp_fulldensity and the like) are not among the *)
(* source files: a call yields the multiexp of its arguments, or an error. *)

Msm(kind, of, by, ok) == [kind |-> kind, of |-> of, by |-> by, ok |-> ok]

\* a multiexp may fail while the run has failures left
MayBe(ok) == ok \/ pFails < MaxFails

\* LockedMultiexpKernel is in locks.rs, which is not among the source
\* files; it is modelled from the specification: a lazy wrapper that takes
\* the device lock on its first use and gives it back when it is dropped.
\* `lock` is the wrapper of the run that holds the GPULock, `who` a wrapper.

\* LockedMultiexpKernel::new(log_d, priority): nothing is locked yet
LockedNew(lock, who) == lock

\* a use can go on when the device lock is free or the wrapper's own
CanLock(lock, who) == lock \in {"none", who}

\* a use of the wrapper: it holds the device lock from then on
LockedUse(lock, who) == who

\* drop of the wrapper
LockedDrop(lock, who) == IF lock = who THEN "none" ELSE lock

\* lines 310-329: the provers are built; provers[0] panics on an empty batch
PSynthesize ==
    /\ pPc = "synth"
    /\ IF pK = 0
       THEN pPc' = "done" /\ pOutcome' = "panic"
       ELSE pPc' = "fetch" /\ UNCHANGED pOutcome
    /\ UNCHANGED <<pK, pPriority, pDelta, pStep, pFails, pPrioHeld, pCpuDone,
                   pGpuList, pGpuPc, pCpuCh, pGpuCh, pHs, pLs, pInputs, pProofs>>
    /\ UNCHANGED <<pFfts, pMsmDone, pFailedHL, pCpuList>>
    /\ UNCHANGED pGpuLock
    /\ UNCHANGED NotProver

\* lines 346-426: the parameters are fetched and the assignments moved out
PFetch ==
    /\ pPc = "fetch"
    /\ pPc' = "prio"
    /\ UNCHANGED <<pK, pPriority, pDelta, pStep, pFails, pPrioHeld, pCpuDone,
                   pGpuList, pGpuPc, pCpuCh, pGpuCh, pHs, pLs, pInputs, pProofs,
                   pOutcome>>
    /\ UNCHANGED <<pFfts, pMsmDone, pFailedHL, pCpuList>>
    /\ UNCHANGED pGpuLock
    /\ UNCHANGED NotProver

\* a run that takes the PriorityLock whatever its priority
PPrioLockAlways ==
    /\ pPc = "prio"
    /\ pPrioHeld' = TRUE
    /\ pPc' = "fft" /\ pStep' = 0
    /\ UNCHANGED <<pK, pPriority, pDelta, pFails, pCpuDone, pGpuList, pGpuPc,
                   pCpuCh, pGpuCh, pHs, pLs, pInputs, pProofs, pOutcome>>
    /\ UNCHANGED <<pFfts, pMsmDone, pFailedHL, pCpuList>>
    /\ UNCHANGED pGpuLock
    /\ UNCHANGED NotProver

\* lines 428-433: let prio_lock = if priority { Some(PriorityLock::lock()) }
PPrioLock ==
    /\ pPc = "prio"
    /\ pPrioHeld' = pPriority
    /\ pPc' = "fft" /\ pStep' = 0
    /\ UNCHANGED <<pK, pPriority, pDelta, pFails, pCpuDone, pGpuList, pGpuPc,
                   pCpuCh, pGpuCh, pHs, pLs, pInputs, pProofs, pOutcome>>
    /\ UNCHANGED <<pFfts, pMsmDone, pFailedHL, pCpuList>>
    /\ UNCHANGED pGpuLock
    /\ UNCHANGED NotProver

\* lines 443-488: the polynomial phase of the next prover; an Err of
\* from_coeffs (447-451) or of icoset_fft (480) leaves the function
\* through the `?` of the collect (488), and prio_lock is dropped with the
\* other locals
PFft(ok) ==
    /\ pPc = "fft" /\ pStep < pK
    /\ IF ok
       THEN /\ pStep' = pStep + 1
            /\ pFfts' = pFfts + 1
            /\ UNCHANGED <<pPc, pPrioHeld, pOutcome>>
       ELSE /\ pPc' = "done" /\ pOutcome' = "fft_err" /\ pPrioHeld' = FALSE
            /\ UNCHANGED <<pStep, pFfts>>
    /\ UNCHANGED <<pK, pPriority, pDelta, pFails, pCpuDone,
                   pGpuList, pGpuPc, pCpuCh, pGpuCh, pHs, pLs, pInputs, pProofs>>
    /\ UNCHANGED <<pMsmDone, pFailedHL, pCpuList>>
    /\ UNCHANGED pGpuLock
    /\ UNCHANGED NotProver

\* a split that takes a_s[0..percent] of a batch of any length
PSplitAnyLength ==
    /\ pPc = "fft" /\ pStep = pK
    /\ pPc' = "H" /\ UNCHANGED <<pOutcome, pPrioHeld>>
    /\ UNCHANGED <<pK, pPriority, pDelta, pStep, pFails, pCpuDone,
                   pGpuList, pGpuPc, pCpuCh, pGpuCh, pHs, pLs, pInputs, pProofs>>
    /\ UNCHANGED <<pFfts, pMsmDone, pFailedHL, pCpuList>>
    /\ UNCHANGED pGpuLock
    /\ UNCHANGED NotProver

\* lines 490-527: the FFT kernels are dropped and a_s is split;
\* &a_s[0..percent] panics on a batch shorter than percent, and the panic
\* leaves the function: its locals, prio_lock among them, are dropped
PSplit ==
    /\ pPc = "fft" /\ pStep = pK
    /\ IF pK < percent
       THEN pPc' = "done" /\ pOutcome' = "panic" /\ pPrioHeld' = FALSE
       ELSE pPc' = "H" /\ UNCHANGED <<pOutcome, pPrioHeld>>
    /\ UNCHANGED <<pK, pPriority, pDelta, pStep, pFails, pCpuDone,
                   pGpuList, pGpuPc, pCpuCh, pGpuCh, pHs, pLs, pInputs, pProofs>>
    /\ UNCHANGED <<pFfts, pMsmDone, pFailedHL, pCpuList>>
    /\ UNCHANGED pGpuLock
    /\ UNCHANGED NotProver

\* whether the CPU worker sends the result of its idx-th multiexp:
\* lines 544 and 554 send both in the H phase; in the L phase the first
\* result (662) is shadowed by the second (669) and line 675 sends that one
CpuSends(phase, idx) == phase = "H" \/ idx = percent - 1

\* lines 534-558 and 660-676: the CPU worker computes the multiexp of its
\* next prover with multiexp_fulldensity_only_cpu
PCpuMultiexp(ok) ==
    /\ pPc \in {"H", "L"} /\ pCpuDone < percent
    /\ MayBe(ok)
    /\ pFails' = IF ok THEN pFails ELSE pFails + 1
    /\ pCpuDone' = pCpuDone + 1
    /\ pCpuCh' = IF CpuSends(pPc, pCpuDone)
                 THEN Append(pCpuCh, Msm(pPc, pCpuDone, "cpu", ok))
                 ELSE pCpuCh
    /\ UNCHANGED <<pK, pPriority, pDelta, pPc, pStep, pPrioHeld, pGpuList,
                   pGpuPc, pGpuCh, pHs, pLs, pInputs, pProofs, pOutcome>>
    /\ pMsmDone' = pMsmDone \cup {<<pPc, pCpuDone>>}
    /\ pFailedHL' = IF ok THEN pFailedHL
                    ELSE pFailedHL \cup {<<pPc, pCpuDone>>}
    /\ pCpuList' = Append(pCpuList, Msm(pPc, pCpuDone, "cpu", ok))
    /\ UNCHANGED pFfts
    /\ UNCHANGED pGpuLock
    /\ UNCHANGED NotProver

\* a GPU worker that maps over a_s from its start instead of a_s[percent..]
PGpuMultiexpFromStart(ok) ==
    /\ pPc \in {"H", "L"} /\ pGpuPc = "map"
    /\ CanLock(pGpuLock, pPc)
    /\ Len(pGpuList) < pK - percent
    /\ MayBe(ok)
    /\ pFails' = IF ok THEN pFails ELSE pFails + 1
    /\ pGpuList' = Append(pGpuList, Msm(pPc, Len(pGpuList), "gpu", ok))
    /\ UNCHANGED <<pK, pPriority, pDelta, pPc, pStep, pPrioHeld, pCpuDone,
                   pGpuPc, pCpuCh, pGpuCh, pHs, pLs, pInputs, pProofs, pOutcome>>
    /\ pMsmDone' = pMsmDone \cup {<<pPc, Len(pGpuList)>>}
    /\ pFailedHL' = IF ok THEN pFailedHL
                    ELSE pFailedHL \cup {<<pPc, Len(pGpuList)>>}
    /\ UNCHANGED <<pFfts, pCpuList>>
    /\ pGpuLock' = LockedUse(pGpuLock, pPc)
    /\ UNCHANGED NotProver

\* lines 568-584 and 685-701: the GPU worker maps multiexp_fulldensity over
\* the provers from percent on, in order
PGpuMultiexp(ok) ==
    /\ pPc \in {"H", "L"} /\ pGpuPc = "map"
    /\ CanLock(pGpuLock, pPc)
    /\ Len(pGpuList) < pK - percent
    /\ MayBe(ok)
    /\ pFails' = IF ok THEN pFails ELSE pFails + 1
    /\ pGpuList' = Append(pGpuList,
                          Msm(pPc, percent + Len(pGpuList), "gpu", ok))
    /\ UNCHANGED <<pK, pPriority, pDelta, pPc, pStep, pPrioHeld, pCpuDone,
                   pGpuPc, pCpuCh, pGpuCh, pHs, pLs, pInputs, pProofs, pOutcome>>
    /\ pMsmDone' = pMsmDone \cup {<<pPc, percent + Len(pGpuList)>>}
    /\ pFailedHL' = IF ok THEN pFailedHL
                    ELSE pFailedHL \cup {<<pPc, percent + Len(pGpuList)>>}
    /\ UNCHANGED <<pFfts, pCpuList>>
    /\ pGpuLock' = LockedUse(pGpuLock, pPc)
    /\ UNCHANGED NotProver

\* a GPU worker whose kernel wrapper outlives its closure
PGpuSendKeepsKernel ==
    /\ pPc \in {"H", "L"} /\ pGpuPc # "end"
    /\ Len(pGpuList) = pK - percent
    /\ IF Len(pGpuCh) < Len(pGpuList)
       THEN /\ pGpuCh' = Append(pGpuCh, pGpuList[Len(pGpuCh) + 1])
            /\ pGpuPc' = "send"
       ELSE /\ pGpuPc' = "end"
            /\ UNCHANGED pGpuCh
    /\ UNCHANGED <<pK, pPriority, pDelta, pPc, pStep, pFails, pPrioHeld,
                   pCpuDone, pGpuList, pCpuCh, pHs, pLs, pInputs, pProofs,
                   pOutcome>>
    /\ UNCHANGED <<pFfts, pMsmDone, pFailedHL, pCpuList>>
    /\ UNCHANGED pGpuLock
    /\ UNCHANGED NotProver

\* lines 586-592 and 703-709: the collected list is Ok, every item of it is
\* sent in order, and the closure ends: its multiexp_kern is dropped
PGpuSend ==
    /\ pPc \in {"H", "L"} /\ pGpuPc # "end"
    /\ Len(pGpuList) = pK - percent
    /\ IF Len(pGpuCh) < Len(pGpuList)
       THEN /\ pGpuCh' = Append(pGpuCh, pGpuList[Len(pGpuCh) + 1])
            /\ pGpuPc' = "send"
            /\ UNCHANGED pGpuLock
       ELSE /\ pGpuPc' = "end"
            /\ pGpuLock' = LockedDrop(pGpuLock, pPc)
            /\ UNCHANGED pGpuCh
    /\ UNCHANGED <<pK, pPriority, pDelta, pPc, pStep, pFails, pPrioHeld,
                   pCpuDone, pGpuList, pCpuCh, pHs, pLs, pInputs, pProofs,
                   pOutcome>>
    /\ UNCHANGED <<pFfts, pMsmDone, pFailedHL, pCpuList>>
    /\ UNCHANGED NotProver

\* `for result in rx.recv() { v.push(Waiter::done(result)) }`: recv() yields
\* one Result, and the loop runs over that Result: once with the first
\* message, or not at all when the channel is empty and closed
RecvLoop(ch) == IF ch = <<>> THEN <<>> ELSE <<ch[1]>>

\* lines 596-603 and 713-720, after the scoped pool has joined both workers
Collected(cpuCh, gpuCh) == RecvLoop(cpuCh) \o RecvLoop(gpuCh)

\* a collector that does not wait for the scoped pool to join its workers
PCollectNoJoin ==
    /\ pPc \in {"H", "L"}
    /\ IF pPc = "H"
       THEN /\ pHs' = Collected(pCpuCh, pGpuCh)
            /\ pPc' = "L"
            /\ UNCHANGED pLs
       ELSE /\ pLs' = Collected(pCpuCh, pGpuCh)
            /\ pPc' = "inputs"
            /\ UNCHANGED pHs
    /\ pCpuDone' = 0 /\ pGpuList' = <<>> /\ pGpuPc' = "map"
    /\ pCpuCh' = <<>> /\ pGpuCh' = <<>> /\ pStep' = 0
    /\ UNCHANGED <<pK, pPriority, pDelta, pFails, pPrioHeld, pInputs, pProofs,
                   pOutcome>>
    /\ UNCHANGED <<pFfts, pMsmDone, pFailedHL>>
    /\ pCpuList' = <<>>
    /\ pGpuLock' = IF pPc = "H" THEN LockedNew(pGpuLock, "inputs")
                    ELSE pGpuLock
    /\ UNCHANGED NotProver

PCollect ==
    /\ pPc \in {"H", "L"}
    /\ pCpuDone = percent /\ pGpuPc = "end"
    /\ IF pPc = "H"
       THEN /\ pHs' = Collected(pCpuCh, pGpuCh)
            /\ pPc' = "L"
            /\ UNCHANGED pLs
       ELSE /\ pLs' = Collected(pCpuCh, pGpuCh)
            /\ pPc' = "inputs"
            /\ UNCHANGED pHs
    /\ pCpuDone' = 0 /\ pGpuList' = <<>> /\ pGpuPc' = "map"
    /\ pCpuCh' = <<>> /\ pGpuCh' = <<>> /\ pStep' = 0
    /\ UNCHANGED <<pK, pPriority, pDelta, pFails, pPrioHeld, pInputs, pProofs,
                   pOutcome>>
    /\ UNCHANGED <<pFfts, pMsmDone, pFailedHL>>
    /\ pCpuList' = <<>>
    /\ pGpuLock' = IF pPc = "H" THEN LockedNew(pGpuLock, "inputs")
                    ELSE pGpuLock
    /\ UNCHANGED NotProver

\* lines 750-859: the six input multiexps of each prover in turn; the
\* closure returns the six waiters of its own prover
PInput(ok) ==
    /\ pPc = "inputs" /\ pStep < pK * num_input_msms
    /\ CanLock(pGpuLock, "inputs")
    /\ MayBe(ok)
    /\ pFails' = IF ok THEN pFails ELSE pFails + 1
    /\ pInputs' =
          IF pStep % num_input_msms = 0
          THEN Append(pInputs, Msm("inputs", pStep \div num_input_msms,
                                   "gpu", ok))
          ELSE [pInputs EXCEPT ![Len(pInputs)].ok = @ /\ ok]
    /\ pStep' = pStep + 1
    /\ UNCHANGED <<pK, pPriority, pDelta, pPc, pPrioHeld, pCpuDone, pGpuList,
                   pGpuPc, pCpuCh, pGpuCh, pHs, pLs, pProofs, pOutcome>>
    /\ pMsmDone' = IF pStep % num_input_msms = num_input_msms - 1
                   THEN pMsmDone \cup {<<"inputs", pStep \div num_input_msms>>}
                   ELSE pMsmDone
    /\ UNCHANGED <<pFfts, pFailedHL, pCpuList>>
    /\ pGpuLock' = LockedUse(pGpuLock, "inputs")
    /\ UNCHANGED NotProver

\* lines 862-864: drop(multiexp_kern); drop(prio_lock);
PDrop ==
    /\ pPc = "inputs" /\ pStep = pK * num_input_msms
    /\ pPrioHeld' = FALSE
    /\ pPc' = "assemble"
    /\ UNCHANGED <<pK, pPriority, pDelta, pStep, pFails, pCpuDone, pGpuList,
                   pGpuPc, pCpuCh, pGpuCh, pHs, pLs, pInputs, pProofs, pOutcome>>
    /\ UNCHANGED <<pFfts, pMsmDone, pFailedHL, pCpuList>>
    /\ pGpuLock' = LockedDrop(pGpuLock, "inputs")
    /\ UNCHANGED NotProver

\* h_s.zip(l_s).zip(inputs).zip(r_s).zip(s_s): as long as its shortest side
AssemblyLen(hs, ls, inputs, k) ==
    Min(Min(Len(hs), Len(ls)), Min(Len(inputs), k))

\* lines 881-921, the closure on the t-th tuple: the identity check, then
\* the wait()? on each of the eight results
TupleOutcome(hs, ls, inputs, delta, t) ==
    IF delta # "ok" THEN "identity"
    ELSE IF ~inputs[t].ok \/ ~hs[t].ok \/ ~ls[t].ok THEN "err"
    ELSE "ok"

\* the proof of the t-th tuple: where each of its parts came from; r and s
\* are r_s[t-1] and s_s[t-1]
Proof(hs, ls, inputs, t) ==
    [h |-> hs[t].of, l |-> ls[t].of, inputs |-> inputs[t].of,
     r |-> t - 1, s |-> t - 1]

\* lines 870-924: .map(..).collect::<Result<Vec<_>, SynthesisError>>()?
Assemble(hs, ls, inputs, k, delta) ==
    LET n   == AssemblyLen(hs, ls, inputs, k)
        bad == {t \in 1 .. n : TupleOutcome(hs, ls, inputs, delta, t) # "ok"}
    IN  IF bad = {}
        THEN [outcome |-> "ok",
              proofs |-> [t \in 1 .. n |-> Proof(hs, ls, inputs, t)]]
        ELSE [outcome |-> TupleOutcome(hs, ls, inputs, delta,
                              CHOOSE t \in bad : \A u \in bad : t <= u),
              proofs |-> <<>>]

PAssemble ==
    /\ pPc = "assemble"
    /\ LET res == Assemble(pHs, pLs, pInputs, pK, pDelta)
       IN  pProofs' = res.proofs /\ pOutcome' = res.outcome
    /\ pPc' = "done"
    /\ UNCHANGED <<pK, pPriority, pDelta, pStep, pFails, pPrioHeld, pCpuDone,
                   pGpuList, pGpuPc, pCpuCh, pGpuCh, pHs, pLs, pInputs>>
    /\ UNCHANGED <<pFfts, pMsmDone, pFailedHL, pCpuList>>
    /\ UNCHANGED pGpuLock
    /\ UNCHANGED NotProver

-----------------------------------------------------------------------------
(* ProvingAssignment, prover.rs 30-251.  Scalars are the integers modulo   *)
(* FieldP.  A Variable is <<"Input", i>> or <<"Aux", i>> with i counted    *)
(* from 0 as in the source; a LinearCombination is a sequence of terms.    *)
(* DensityTracker is in multiexp.rs at the crate root, which is not among  *)
(* the source files: it is modelled from the specification as a bit        *)
(* vector with the count of its set bits.                                  *)

one == 1 % FieldP

\* DensityTracker::new()
DensityTracker_new == [bv |-> <<>>, total_density |-> 0]

\* DensityTracker::add_element(): one more position, not yet used
add_element(d) == [d EXCEPT !.bv = Append(@, FALSE)]

\* DensityTracker::inc(idx): position idx is used by a query
inc(d, idx) ==
    IF d.bv[idx + 1] THEN d
    ELSE [bv |-> [d.bv EXCEPT ![idx + 1] = TRUE],
          total_density |-> d.total_density + 1]

\* DensityTracker::extend(other, is_input_density): other's positions follow
\* self's; for an input density the first position of both is the shared
\* constant one and is kept once
density_extend(d, other, is_input_density) ==
    IF other.bv = <<>> THEN d
    ELSE IF d.bv = <<>> THEN other
    ELSE IF is_input_density
    THEN [bv |-> [d.bv EXCEPT ![1] = @ \/ other.bv[1]] \o Tail(other.bv),
          total_density |->
              d.total_density + other.total_density
                  - (IF d.bv[1] /\ other.bv[1] THEN 1 ELSE 0)]
    ELSE [bv |-> d.bv \o other.bv,
          total_density |-> d.total_density + other.total_density]

\* lines 137-148: fn new()
ProvingAssignment_new ==
    [a_aux_density |-> DensityTracker_new,
     b_input_density |-> DensityTracker_new,
     b_aux_density |-> DensityTracker_new,
     a |-> <<>>, b |-> <<>>, c |-> <<>>,
     input_assignment |-> <<>>, aux_assignment |-> <<>>]

\* an alloc that forgets the aux density of b
allocWithoutBDensity(pa, v) ==
    [pa EXCEPT !.aux_assignment = Append(@, v),
               !.a_aux_density = add_element(@)]

\* lines 150-161: fn alloc
alloc(pa, v) ==
    [pa EXCEPT !.aux_assignment = Append(@, v),
               !.a_aux_density = add_element(@),
               !.b_aux_density = add_element(@)]

\* lines 163-173: fn alloc_input
alloc_input(pa, v) ==
    [pa EXCEPT !.input_assignment = Append(@, v),
               !.b_input_density = add_element(@)]

\* what the closure f of alloc and alloc_input returns: Ok(v), or an Err
\* that carries a SynthesisError
Ok(v) == [ok |-> TRUE, v |-> v]
Err == [ok |-> FALSE, v |-> 0]

\* the Result a call hands back
ResultOf(r) == IF r.ok THEN "Ok" ELSE "Err"

\* an alloc that pushes before it looks at the closure's result
alloc_callPushFirst(pa, r) == alloc(pa, r.v)

\* line 158: self.aux_assignment.push(f()?): the `?` returns the error of
\* f before anything is pushed
alloc_call(pa, r) == IF r.ok THEN alloc(pa, r.v) ELSE pa

\* line 170: self.input_assignment.push(f()?)
alloc_input_call(pa, r) == IF r.ok THEN alloc_input(pa, r.v) ELSE pa

Term(var, coeff) == [var |-> var, coeff |-> coeff]

\* lines 42-55: the value of the variable of a term
ValueOf(var, input_assignment, aux_assignment) ==
    IF var[1] = "Input" THEN input_assignment[var[2] + 1]
    ELSE aux_assignment[var[2] + 1]

RECURSIVE eval(_, _, _, _)
\* lines 37-65: the value of a linear combination, from term k on
eval(lc, k, input_assignment, aux_assignment) ==
    IF k > Len(lc) THEN 0
    ELSE (ValueOf(lc[k].var, input_assignment, aux_assignment) * lc[k].coeff
            + eval(lc, k + 1, input_assignment, aux_assignment)) % FieldP

RECURSIVE eval_density(_, _, _, _)
\* lines 45-47 and 51-53: v.inc(i) for every term of the tracker's kind
eval_density(d, lc, k, kind) ==
    IF k > Len(lc) THEN d
    ELSE eval_density(IF lc[k].var[1] = kind THEN inc(d, lc[k].var[2]) ELSE d,
                      lc, k + 1, kind)

\* an enforce whose C combination marks the aux density of a as well
enforceMarkingC(pa, la, lb, lc) ==
    [pa EXCEPT
        !.a = Append(@, eval(la, 1, pa.input_assignment, pa.aux_assignment)),
        !.b = Append(@, eval(lb, 1, pa.input_assignment, pa.aux_assignment)),
        !.c = Append(@, eval(lc, 1, pa.input_assignment, pa.aux_assignment)),
        !.a_aux_density = eval_density(eval_density(@, la, 1, "Aux"),
                                       lc, 1, "Aux"),
        !.b_input_density = eval_density(@, lb, 1, "Input"),
        !.b_aux_density = eval_density(@, lb, 1, "Aux")]

\* a ProvingAssignment that skips the push on c
enforceWithoutC(pa, la, lb, lc) ==
    [pa EXCEPT
        !.a = Append(@, eval(la, 1, pa.input_assignment, pa.aux_assignment)),
        !.b = Append(@, eval(lb, 1, pa.input_assignment, pa.aux_assignment)),
        !.a_aux_density = eval_density(@, la, 1, "Aux"),
        !.b_input_density = eval_density(@, lb, 1, "Input"),
        !.b_aux_density = eval_density(@, lb, 1, "Aux")]

\* lines 175-215: fn enforce
enforce(pa, la, lb, lc) ==
    [pa EXCEPT
        !.a = Append(@, eval(la, 1, pa.input_assignment, pa.aux_assignment)),
        !.b = Append(@, eval(lb, 1, pa.input_assignment, pa.aux_assignment)),
        !.c = Append(@, eval(lc, 1, pa.input_assignment, pa.aux_assignment)),
        !.a_aux_density = eval_density(@, la, 1, "Aux"),
        !.b_input_density = eval_density(@, lb, 1, "Input"),
        !.b_aux_density = eval_density(@, lb, 1, "Aux")]

\* an extend that keeps the first input of other
extendKeepFirstInput(pa, other) ==
    [a_aux_density |->
         density_extend(pa.a_aux_density, other.a_aux_density, FALSE),
     b_input_density |->
         density_extend(pa.b_input_density, other.b_input_density, TRUE),
     b_aux_density |->
         density_extend(pa.b_aux_density, other.b_aux_density, FALSE),
     a |-> pa.a \o other.a,
     b |-> pa.b \o other.b,
     c |-> pa.c \o other.c,
     input_assignment |-> pa.input_assignment \o other.input_assignment,
     aux_assignment |-> pa.aux_assignment \o other.aux_assignment]

\* an extend that skips the first aux variable of other as well
extendSkipFirstAux(pa, other) ==
    [a_aux_density |->
         density_extend(pa.a_aux_density, other.a_aux_density, FALSE),
     b_input_density |->
         density_extend(pa.b_input_density, other.b_input_density, TRUE),
     b_aux_density |->
         density_extend(pa.b_aux_density, other.b_aux_density, FALSE),
     a |-> pa.a \o other.a,
     b |-> pa.b \o other.b,
     c |-> pa.c \o other.c,
     input_assignment |-> pa.input_assignment \o Tail(other.input_assignment),
     aux_assignment |->
         pa.aux_assignment \o (IF other.aux_assignment = <<>> THEN <<>>
                               ELSE Tail(other.aux_assignment))]

\* lines 237-250: fn extend(&mut self, other: Self)
extend(pa, other) ==
    [a_aux_density |->
         density_extend(pa.a_aux_density, other.a_aux_density, FALSE),
     b_input_density |->
         density_extend(pa.b_input_density, other.b_input_density, TRUE),
     b_aux_density |->
         density_extend(pa.b_aux_density, other.b_aux_density, FALSE),
     a |-> pa.a \o other.a,
     b |-> pa.b \o other.b,
     c |-> pa.c \o other.c,
     input_assignment |-> pa.input_assignment \o Tail(other.input_assignment),
     aux_assignment |-> pa.aux_assignment \o other.aux_assignment]

\* lines 313-314, 952-955: a new assignment with the constant-one input
NewWithOne == alloc_input(ProvingAssignment_new, one)

RECURSIVE PadFrom(_, _)
\* lines 316-318, from input i on:
\*   prover.enforce(|| "", |lc| lc + Variable(Index::Input(i)), |lc| lc,
\*                  |lc| lc);
PadFrom(pa, i) ==
    IF i >= Len(pa.input_assignment) THEN pa
    ELSE PadFrom(enforce(pa, <<Term(<<"Input", i>>, one)>>, <<>>, <<>>), i + 1)

\* a loop that leaves out the constant-one input
finish_inputsAfterOne(pa) == PadFrom(pa, 1)

\* lines 316-318: for i in 0..prover.input_assignment.len() { .. }
finish_inputs(pa) == PadFrom(pa, 0)

\* the calls of that loop, as recorded
PadOps(pa) ==
    [i \in 1 .. Len(pa.input_assignment) |->
        [op |-> "pad", va |-> <<"Input", i - 1>>]]

\* the assignments at hand: x, y, z of an extend chain, the groups of a
\* stream, the provers of a batch
Slots == {1, 2, 3}

Fr == 0 .. FieldP - 1

\* the values the closures of alloc and alloc_input return in a run
AllocValues == {0, one}

\* and the results of those closures
AllocResults == {Ok(v) : v \in AllocValues} \cup {Err}

\* every variable an assignment of the run can hold
Variables == {"Input", "Aux"} \X (0 .. MaxOps)

\* the variables allocated in pa
VariablesOf(pa) ==
    {<<"Input", i>> : i \in 0 .. Len(pa.input_assignment) - 1}
        \cup {<<"Aux", i>> : i \in 0 .. Len(pa.aux_assignment) - 1}

\* the constraint enforced on two variables: va * (-vb) = va + vb
LcA(va, vb) == <<Term(va, one)>>
LcB(va, vb) == <<Term(vb, FieldP - 1)>>
LcC(va, vb) == <<Term(va, one), Term(vb, one)>>

\* one recorded call applied to an assignment
ApplyOp(pa, o) ==
    IF o.op = "alloc" THEN alloc(pa, o.v)
    ELSE IF o.op = "alloc_input" THEN alloc_input(pa, o.v)
    ELSE IF o.op = "pad" THEN enforce(pa, <<Term(o.va, one)>>, <<>>, <<>>)
    ELSE enforce(pa, LcA(o.va, o.vb), LcB(o.va, o.vb), LcC(o.va, o.vb))

RECURSIVE ApplyOps(_, _, _)
ApplyOps(pa, ops, k) ==
    IF k > Len(ops) THEN pa ELSE ApplyOps(ApplyOp(pa, ops[k]), ops, k + 1)

\* a call of alloc on the assignment of slot i, with a closure that
\* returns r; the calls that returned a Variable are recorded
AAlloc(i, r) ==
    /\ aCheck = "none" /\ aCount < MaxOps
    /\ aAsg' = [aAsg EXCEPT ![i] = alloc_call(@, r)]
    /\ aOps' = IF r.ok
               THEN [aOps EXCEPT ![i] = Append(@, [op |-> "alloc", v |-> r.v])]
               ELSE aOps
    /\ aCount' = aCount + 1
    /\ aRet' = ResultOf(r)
    /\ UNCHANGED aCheck
    /\ UNCHANGED NotAsg

\* a call of alloc_input
AAllocInput(i, r) ==
    /\ aCheck = "none" /\ aCount < MaxOps
    /\ aAsg' = [aAsg EXCEPT ![i] = alloc_input_call(@, r)]
    /\ aOps' = IF r.ok
               THEN [aOps EXCEPT
                       ![i] = Append(@, [op |-> "alloc_input", v |-> r.v])]
               ELSE aOps
    /\ aCount' = aCount + 1
    /\ aRet' = ResultOf(r)
    /\ UNCHANGED aCheck
    /\ UNCHANGED NotAsg

\* a call of enforce on two of the variables allocated so far
AEnforce(i, va, vb) ==
    /\ aCheck = "none" /\ aCount < MaxOps
    /\ va \in VariablesOf(aAsg[i]) /\ vb \in VariablesOf(aAsg[i])
    /\ aAsg' = [aAsg EXCEPT
                  ![i] = enforce(@, LcA(va, vb), LcB(va, vb), LcC(va, vb))]
    /\ aOps' = [aOps EXCEPT
                  ![i] = Append(@, [op |-> "enforce", va |-> va, vb |-> vb])]
    /\ aCount' = aCount + 1
    /\ aRet' = "unit"
    /\ UNCHANGED aCheck
    /\ UNCHANGED NotAsg

\* aAsg[i].extend(aAsg[j]): the other assignment is moved into the call, and
\* the slot takes a new one
AExtend(i, j) ==
    /\ aCheck = "none" /\ aCount < MaxOps
    /\ i # j
    /\ aAsg' = [aAsg EXCEPT ![i] = extend(aAsg[i], aAsg[j]),
                            ![j] = NewWithOne]
    /\ aOps' = [aOps EXCEPT ![i] = aOps[i] \o aOps[j], ![j] = <<>>]
    /\ aCount' = aCount + 1
    /\ aRet' = "unit"
    /\ UNCHANGED aCheck
    /\ UNCHANGED NotAsg

\* lines 329-339: let n = provers[0].a.len(); assert_eq!(prover.a.len(), n)
\* for every prover of the batch
SizeCheck(provers) ==
    IF \A i \in Slots : Len(provers[i].a) = Len(provers[1].a)
    THEN "proceed" ELSE "abort"

\* lines 315-319: circuit.synthesize has returned for every circuit of the
\* batch, and each prover gets one constraint per input
ASynthesized ==
    /\ aCheck = "none"
    /\ aAsg' = [i \in Slots |-> finish_inputs(aAsg[i])]
    /\ aOps' = [i \in Slots |-> aOps[i] \o PadOps(aAsg[i])]
    /\ aCheck' = "built"
    /\ aRet' = "unit"
    /\ UNCHANGED aCount
    /\ UNCHANGED NotAsg

ASizeCheck ==
    /\ aCheck = "built"
    /\ aCheck' = SizeCheck(aAsg)
    /\ UNCHANGED <<aAsg, aOps, aCount, aRet>>
    /\ UNCHANGED NotAsg

\* lines 991-996: the groups folded into an assignment that holds only the
\* constant-one input
Combined(parts) == extend(extend(extend(NewWithOne, parts[1]), parts[2]),
                          parts[3])

\* lines 952-986: the whole stream applied to a single assignment
Full(ops) == ApplyOps(NewWithOne, ops[1] \o ops[2] \o ops[3], 1)

\* the stream holds alloc and alloc_input calls only
AllocOnly(ops) ==
    \A i \in Slots : \A k \in 1 .. Len(ops[i]) :
        ops[i][k].op \in {"alloc", "alloc_input"}

-----------------------------------------------------------------------------
(* The assembly closure of one proof, prover.rs 876-922.  The elements of  *)
(* the verifying key and the eight multiexp results are generic group      *)
(* elements: a group element is the vector of its coefficients, modulo     *)
(* FieldP, on the generators named below, so that two expressions are      *)
(* equal here exactly when they are equal for every choice of elements.    *)

Gens == {"alpha_g1", "beta_g1", "beta_g2", "delta_g1", "delta_g2",
         "a_inputs", "a_aux", "b_g1_inputs", "b_g1_aux",
         "b_g2_inputs", "b_g2_aux", "h", "l"}

\* Projective::zero()
GZero == [g \in Gens |-> 0]

\* the generic element of a name
Gen(name) == [g \in Gens |-> IF g = name THEN 1 ELSE 0]

\* add_assign, add_assign_mixed
GAdd(x, y) == [g \in Gens |-> (x[g] + y[g]) % FieldP]

\* mul, mul_assign by a scalar
GMul(x, k) == [g \in Gens |-> (x[g] * k) % FieldP]

\* the verifying key of a run: `delta` names the delta that is the identity
VkOf(delta) ==
    [alpha_g1 |-> Gen("alpha_g1"), beta_g1 |-> Gen("beta_g1"),
     beta_g2 |-> Gen("beta_g2"),
     delta_g1 |-> IF delta = "delta_g1" THEN GZero ELSE Gen("delta_g1"),
     delta_g2 |-> IF delta = "delta_g2" THEN GZero ELSE Gen("delta_g2")]

\* lines 881-885
FCheck ==
    /\ fPc = "check"
    /\ IF fVk.delta_g1 = GZero \/ fVk.delta_g2 = GZero
       THEN fResult' = "UnexpectedIdentity" /\ fPc' = "done"
       ELSE fPc' = "g_a" /\ UNCHANGED fResult
    /\ UNCHANGED <<fR, fS, fVk, fGa, fGb, fGc, fAAnswer, fB1Answer, fB2Answer>>
    /\ UNCHANGED fProof
    /\ UNCHANGED NotFin

\* lines 887-888
FInitA ==
    /\ fPc = "g_a"
    /\ fGa' = GAdd(GMul(fVk.delta_g1, fR), fVk.alpha_g1)
    /\ fPc' = "g_b"
    /\ UNCHANGED <<fR, fS, fVk, fGb, fGc, fAAnswer, fB1Answer, fB2Answer,
                   fResult>>
    /\ UNCHANGED fProof
    /\ UNCHANGED NotFin

\* lines 889-890
FInitB ==
    /\ fPc = "g_b"
    /\ fGb' = GAdd(GMul(fVk.delta_g2, fS), fVk.beta_g2)
    /\ fPc' = "g_c"
    /\ UNCHANGED <<fR, fS, fVk, fGa, fGc, fAAnswer, fB1Answer, fB2Answer,
                   fResult>>
    /\ UNCHANGED fProof
    /\ UNCHANGED NotFin

\* lines 891-899
FInitC ==
    /\ fPc = "g_c"
    /\ LET rs == (fR * fS) % FieldP
       IN  fGc' = GAdd(GAdd(GMul(fVk.delta_g1, rs), GMul(fVk.alpha_g1, fS)),
                       GMul(fVk.beta_g1, fR))
    /\ fPc' = "a_answer"
    /\ UNCHANGED <<fR, fS, fVk, fGa, fGb, fAAnswer, fB1Answer, fB2Answer,
                   fResult>>
    /\ UNCHANGED fProof
    /\ UNCHANGED NotFin

\* lines 900-904; a wait()? that yields Err ends the closure
FAnswerA(ok) ==
    /\ fPc = "a_answer"
    /\ IF ok
       THEN LET a_answer == GAdd(Gen("a_inputs"), Gen("a_aux"))
            IN  /\ fGa' = GAdd(fGa, a_answer)
                /\ fAAnswer' = GMul(a_answer, fS)
                /\ fGc' = GAdd(fGc, GMul(a_answer, fS))
                /\ fPc' = "b_answer"
                /\ UNCHANGED fResult
       ELSE /\ fResult' = "Err" /\ fPc' = "done"
            /\ UNCHANGED <<fGa, fGc, fAAnswer>>
    /\ UNCHANGED <<fR, fS, fVk, fGb, fB1Answer, fB2Answer>>
    /\ UNCHANGED fProof
    /\ UNCHANGED NotFin

\* the closure with b1_answer scaled by s
FAnswerBScaledByS(ok) ==
    /\ fPc = "b_answer"
    /\ IF ok
       THEN LET b1_answer == GAdd(Gen("b_g1_inputs"), Gen("b_g1_aux"))
                b2_answer == GAdd(Gen("b_g2_inputs"), Gen("b_g2_aux"))
            IN  /\ fB2Answer' = b2_answer
                /\ fGb' = GAdd(fGb, b2_answer)
                /\ fB1Answer' = GMul(b1_answer, fS)
                /\ fGc' = GAdd(fGc, GMul(b1_answer, fS))
                /\ fPc' = "h_l"
                /\ UNCHANGED fResult
       ELSE /\ fResult' = "Err" /\ fPc' = "done"
            /\ UNCHANGED <<fGb, fGc, fB1Answer, fB2Answer>>
    /\ UNCHANGED <<fR, fS, fVk, fGa, fAAnswer>>
    /\ UNCHANGED fProof
    /\ UNCHANGED NotFin

\* lines 906-913
FAnswerB(ok) ==
    /\ fPc = "b_answer"
    /\ IF ok
       THEN LET b1_answer == GAdd(Gen("b_g1_inputs"), Gen("b_g1_aux"))
                b2_answer == GAdd(Gen("b_g2_inputs"), Gen("b_g2_aux"))
            IN  /\ fB2Answer' = b2_answer
                /\ fGb' = GAdd(fGb, b2_answer)
                /\ fB1Answer' = GMul(b1_answer, fR)
                /\ fGc' = GAdd(fGc, GMul(b1_answer, fR))
                /\ fPc' = "h_l"
                /\ UNCHANGED fResult
       ELSE /\ fResult' = "Err" /\ fPc' = "done"
            /\ UNCHANGED <<fGb, fGc, fB1Answer, fB2Answer>>
    /\ UNCHANGED <<fR, fS, fVk, fGa, fAAnswer>>
    /\ UNCHANGED fProof
    /\ UNCHANGED NotFin

\* lines 914-915
FAddHL(ok) ==
    /\ fPc = "h_l"
    /\ IF ok
       THEN /\ fGc' = GAdd(GAdd(fGc, Gen("h")), Gen("l"))
            /\ fPc' = "proof"
            /\ UNCHANGED fResult
       ELSE /\ fResult' = "Err" /\ fPc' = "done"
            /\ UNCHANGED fGc
    /\ UNCHANGED <<fR, fS, fVk, fGa, fGb, fAAnswer, fB1Answer, fB2Answer>>
    /\ UNCHANGED fProof
    /\ UNCHANGED NotFin

\* lines 917-921: into_affine() keeps the element
FProof ==
    /\ fPc = "proof"
    /\ fProof' = [a |-> fGa, b |-> fGb, c |-> fGc]
    /\ fResult' = "Ok"
    /\ fPc' = "done"
    /\ UNCHANGED <<fR, fS, fVk, fGa, fGb, fGc, fAAnswer, fB1Answer, fB2Answer>>
    /\ UNCHANGED NotFin

-----------------------------------------------------------------------------
(* A multiexp of a run with priority = false while other jobs take and     *)
(* release the PriorityLock.  The call goes through LockedMultiexpKernel,  *)
(* which is in locks.rs and not among the source files: from the           *)
(* specification, a GPUTaken makes the wrapper drop its kernel, build a    *)
(* new one and call again.                                                 *)

\* a kernel that refuses when no higher-priority job is waiting
QTileInverted(k) ==
    /\ mxPc = "gpu"
    /\ k \in 1 .. Len(mxJobs)
    /\ mxJobs[k].st = "run"
    /\ LET ok == should_break(kPriority)
       IN  /\ mxJobs' = [mxJobs EXCEPT ![k] = TileStep(mxJobs[k], mxTile, ok)]
           /\ mxCalls' = mxCalls \cup
                 {[kern |-> mxJobs[k].kern, chunk |-> k,
                   tile |-> Tiles(mxJobs[k], mxTile)[mxJobs[k].pos + 1],
                   ok |-> ok]}
    /\ UNCHANGED <<mxN, mxSkip, mxUNum, mxD, mxTile, mxPc, mxChunks, mxResult,
                   cpuCalls, cpuResult>>
    /\ UNCHANGED NotMx

\* lines 141-143 and 463-468: the kernel call of the next tile of chunk k,
\* which returns GPUTaken when should_break(self.priority) holds at its entry
QTile(k) ==
    /\ mxPc = "gpu"
    /\ k \in 1 .. Len(mxJobs)
    /\ mxJobs[k].st = "run"
    /\ LET ok == ~should_break(kPriority)
       IN  /\ mxJobs' = [mxJobs EXCEPT ![k] = TileStep(mxJobs[k], mxTile, ok)]
           /\ mxCalls' = mxCalls \cup
                 {[kern |-> mxJobs[k].kern, chunk |-> k,
                   tile |-> Tiles(mxJobs[k], mxTile)[mxJobs[k].pos + 1],
                   ok |-> ok]}
    /\ UNCHANGED <<mxN, mxSkip, mxUNum, mxD, mxTile, mxPc, mxChunks, mxResult,
                   cpuCalls, cpuResult>>
    /\ UNCHANGED NotMx

\* the wrapper on Err(GPUTaken): the kernel is dropped and the same call is
\* made again on a new one, with the same immutable arguments
QRetry ==
    /\ mxPc = "done" /\ ~mxResult.ok
    /\ qRestarts' = Min(qRestarts + 1, MaxRestarts)
    /\ mxPc' = "start" /\ mxChunks' = <<>> /\ mxJobs' = <<>> /\ mxCalls' = {}
    /\ mxResult' = NoResult
    /\ UNCHANGED <<mxN, mxSkip, mxUNum, mxD, mxTile, cpuCalls, cpuResult>>
    /\ UNCHANGED <<winVars, kernVars, lockVars, proverVars, asgVars, finVars,
                   fftVars>>

RECURSIVE RunJob(_, _)
\* the tile loop of a chunk when no kernel call fails
RunJob(job, tile) ==
    IF job.st # "run" THEN job ELSE RunJob(TileStep(job, tile, TRUE), tile)

\* what the call returns in a run that is never preempted
Uninterrupted(skip, n, uNum, d, tile) ==
    LET jobs == ZipJobs(GpuChunks(skip, n, uNum, d), d)
    IN  CollectResults([k \in 1 .. Len(jobs) |-> RunJob(jobs[k], tile)])

-----------------------------------------------------------------------------
(* The polynomial phase, prover.rs 440-491.  LockedFFTKernel and           *)
(* LockedFFTKernel_1 are in locks.rs, which is not among the source files: *)
(* from the specification a driver is lazy, its first use takes the device *)
(* lock (the GPULock, one lock for all GPUs) and builds the kernel, and    *)
(* the driver keeps kernel and lock until it is dropped; a driver that     *)
(* cannot build a kernel gives the lock back and the transform runs on the *)
(* CPU.  No higher-priority job interferes.                                *)

Threads == {"main", "a", "b"}

Transform(poly, op, drv) == [poly |-> poly, op |-> op, drv |-> drv]

\* lines 457-458: a.ifft(.., &mut fft_kern); a.coset_fft(.., &mut fft_kern)
TodoA == <<Transform("a", "ifft", 0), Transform("a", "coset_fft", 0)>>

\* lines 462-463: b.ifft_1(.., &mut fft_kern_1); b.coset_fft_1(..)
TodoB == <<Transform("b", "ifft", 1), Transform("b", "coset_fft", 1)>>

\* lines 468-480: c.ifft, c.coset_fft and a.icoset_fft, all on fft_kern
TodoMain ==
    <<Transform("c", "ifft", 0), Transform("c", "coset_fft", 0),
      Transform("a", "icoset_fft", 0)>>

\* a call on driver d can go on: the driver has its kernel, or the GPULock
\* is free for it to take
DriverReady(d) == d \in tKern \/ tKern = {}

\* the drivers with a kernel once a call on driver d has begun; built says
\* whether a kernel could be built
KernAfter(d, built) == IF d \in tKern \/ ~built THEN tKern ELSE tKern \cup {d}

\* lines 440-445: the two drivers are made, empty, and the map over the
\* provers begins
TStart ==
    /\ tMain = "start"
    /\ tMain' = IF tK = 0 THEN "drop" ELSE "closure"
    /\ UNCHANGED <<tK, tProver, tTodo, tRun, tOp, tKern, tDone>>
    /\ UNCHANGED NotFft

\* lines 446-464: the closure of the next prover hands a and b to the
\* scoped pool
TScope ==
    /\ tMain = "closure"
    /\ tMain' = "scope"
    /\ tTodo' = [tTodo EXCEPT !["a"] = TodoA, !["b"] = TodoB]
    /\ tDone' = {}
    /\ UNCHANGED <<tK, tProver, tRun, tOp, tKern>>
    /\ UNCHANGED NotFft

\* thread t calls its next transform on the driver it names
TBegin(t, built) ==
    /\ tTodo[t] # <<>> /\ ~tRun[t]
    /\ LET o == tTodo[t][1]
       IN  /\ DriverReady(o.drv)
           /\ tKern' = KernAfter(o.drv, built)
           /\ tOp' = [tOp EXCEPT ![o.drv] = @ \cup {o}]
    /\ tRun' = [tRun EXCEPT ![t] = TRUE]
    /\ UNCHANGED <<tK, tProver, tMain, tTodo, tDone>>
    /\ UNCHANGED NotFft

\* the transform of thread t returns
TEnd(t) ==
    /\ tRun[t]
    /\ LET o == tTodo[t][1]
       IN  /\ tOp' = [tOp EXCEPT ![o.drv] = @ \ {o}]
           /\ tDone' = tDone \cup {o}
    /\ tTodo' = [tTodo EXCEPT ![t] = Tail(@)]
    /\ tRun' = [tRun EXCEPT ![t] = FALSE]
    /\ UNCHANGED <<tK, tProver, tMain, tKern>>
    /\ UNCHANGED NotFft

\* a scope that does not wait for its workers
TJoinEarly ==
    /\ tMain = "scope"
    /\ tMain' = "seq"
    /\ tTodo' = [tTodo EXCEPT !["main"] = TodoMain]
    /\ UNCHANGED <<tK, tProver, tRun, tOp, tKern, tDone>>
    /\ UNCHANGED NotFft

\* line 466: pool.scoped returns once both of its closures have returned
TJoin ==
    /\ tMain = "scope"
    /\ tTodo["a"] = <<>> /\ tTodo["b"] = <<>>
    /\ tMain' = "seq"
    /\ tTodo' = [tTodo EXCEPT !["main"] = TodoMain]
    /\ UNCHANGED <<tK, tProver, tRun, tOp, tKern, tDone>>
    /\ UNCHANGED NotFft

\* lines 482-487: the closure returns and the map goes on to the next
\* prover, if any
TClosureEnd ==
    /\ tMain = "seq" /\ tTodo["main"] = <<>>
    /\ IF tProver + 1 < tK
       THEN tProver' = tProver + 1 /\ tMain' = "closure"
       ELSE tProver' = tProver /\ tMain' = "drop"
    /\ UNCHANGED <<tK, tTodo, tRun, tOp, tKern, tDone>>
    /\ UNCHANGED NotFft

\* lines 490-491: drop(fft_kern); drop(fft_kern_1);
TDrop ==
    /\ tMain = "drop"
    /\ tKern' = {}
    /\ tMain' = "done"
    /\ UNCHANGED <<tK, tProver, tTodo, tRun, tOp, tDone>>
    /\ UNCHANGED NotFft

-----------------------------------------------------------------------------
(* The state before a machine has taken a step, and the state a machine    *)
(* is held in by the specifications of the others.                         *)

MxRest ==
    /\ mxPc = "start" /\ mxChunks = <<>> /\ mxJobs = <<>> /\ mxCalls = {}
    /\ mxResult = NoResult /\ cpuCalls = <<>> /\ cpuResult = NoResult

MxIdle ==
    /\ mxN = 0 /\ mxSkip = 0 /\ mxUNum = 0 /\ mxD = 1 /\ mxTile = TileLen
    /\ MxRest

WinRest ==
    /\ wPc = "entry" /\ wResults = <<>> /\ wAcc = 0 /\ wBits = 0 /\ wI = 0
    /\ wWidths = <<>>

WinIdle == wCore = 1 /\ wW = 1 /\ wExps = <<>> /\ WinRest

KernRest ==
    /\ plHolder = {} /\ plWaiting = {} /\ kPc = "idle" /\ kBuffers = 0
    /\ kLaunched = FALSE /\ kPolls = 0 /\ kResult = "none"

KernIdle == kPriority = FALSE /\ KernRest

\* a LockedFFTKernel or LockedMultiexpKernel has been used: lines 440-488 for
\* the FFTs, 568-580 and 685-697 for the GPU half, 750-859 for the inputs
GpuWorkStarted ==
    \/ pFfts > 0
    \/ \E m \in pMsmDone : m[1] = "inputs" \/ m[2] >= percent

\* the map closure of the assembly has been entered (line 878)
AssemblyStarted ==
    \/ pPc = "assemble"
    \/ pPc = "done" /\ pOutcome \notin {"panic", "fft_err"}

\* the multiexps the proof of prover i is made of
MsmsOf(i) == {<<"H", i>>, <<"L", i>>, <<"inputs", i>>}

ProverRest ==
    /\ pPc = "synth" /\ pStep = 0 /\ pFails = 0 /\ pPrioHeld = FALSE
    /\ pCpuDone = 0 /\ pGpuList = <<>> /\ pGpuPc = "map"
    /\ pCpuCh = <<>> /\ pGpuCh = <<>> /\ pHs = <<>> /\ pLs = <<>>
    /\ pInputs = <<>> /\ pProofs = <<>> /\ pOutcome = "running"
    /\ pFfts = 0 /\ pMsmDone = {} /\ pFailedHL = {} /\ pCpuList = <<>>
    /\ pGpuLock = "none"

ProverIdle == pK = 0 /\ pPriority = FALSE /\ pDelta = "ok" /\ ProverRest

AsgRest ==
    /\ aAsg = [i \in Slots |-> NewWithOne]
    /\ aOps = [i \in Slots |-> <<>>]
    /\ aCount = 0 /\ aCheck = "none"
    /\ aRet = "unit"

FinRest ==
    /\ fPc = "check" /\ fResult = "none"
    /\ fProof = [a |-> GZero, b |-> GZero, c |-> GZero]
    /\ fGa = GZero /\ fGb = GZero /\ fGc = GZero
    /\ fAAnswer = GZero /\ fB1Answer = GZero /\ fB2Answer = GZero

FinIdle == fR = 0 /\ fS = 0 /\ fVk = VkOf("ok") /\ FinRest

PreIdle == qRestarts = 0

FftRest ==
    /\ tProver = 0 /\ tMain = "start"
    /\ tTodo = [t \in Threads |-> <<>>]
    /\ tRun = [t \in Threads |-> FALSE]
    /\ tOp = [d \in 0 .. 1 |-> {}]
    /\ tKern = {} /\ tDone = {}

FftIdle == tK = 0 /\ FftRest

LockRest ==
    /\ glOwner = {}
    /\ mkPc = [p \in Creators |-> "idle"]
    /\ mkDevs = [p \in Creators |-> 0]
    /\ mkKernels = [p \in Creators |-> 0]
    /\ mkFailed = [p \in Creators |-> 0]
    /\ mkResult = [p \in Creators |-> "none"]

-----------------------------------------------------------------------------
(* Specifications.                                                         *)

\* one MultiexpKernel::multiexp call with a scaled tile length
InitMultiexp ==
    /\ mxN \in 0 .. MaxN
    /\ mxSkip \in 0 .. MaxSkip
    /\ mxUNum \in 0 .. UDen
    /\ mxD \in 1 .. MaxDevices
    /\ mxTile = TileLen
    /\ MxRest
    /\ WinIdle /\ KernIdle /\ LockRest /\ ProverIdle /\ AsgRest
    /\ FinIdle /\ PreIdle
    /\ FftIdle

NextMultiexp ==
    \/ MxSplit
    \/ \E k \in 1 .. MaxDevices, ok \in BOOLEAN : MxTile(k, ok)
    \/ MxCollect

SpecMultiexp == InitMultiexp /\ [][NextMultiexp]_vars

\* the same input through only_cpu_multiexp and MultiexpKernel::multiexp
InitCpuGpu ==
    /\ mxN \in 0 .. MaxCpuN
    /\ mxSkip \in 0 .. MaxSkip
    /\ mxUNum \in 0 .. UDen
    /\ mxD \in 1 .. MaxDevices
    /\ mxTile = jack_chunk_3080
    /\ MxRest
    /\ WinIdle /\ KernIdle /\ LockRest /\ ProverIdle /\ AsgRest
    /\ FinIdle /\ PreIdle
    /\ FftIdle

NextCpuGpu ==
    \/ MxSplit
    \/ \E k \in 1 .. MaxDevices, ok \in BOOLEAN : MxTile(k, ok)
    \/ MxCollect
    \/ OnlyCpu

SpecCpuGpu == InitCpuGpu /\ [][NextCpuGpu]_vars

RECURSIVE SeqsUpTo(_, _)
\* the sequences over S of length at most n
SeqsUpTo(S, n) ==
    IF n = 0 THEN {<<>>}
    ELSE LET shorter == SeqsUpTo(S, n - 1)
         IN  shorter \cup {Append(q, x) : q \in shorter, x \in S}

\* one kernel call: any core count, window size and exponents
InitWindow ==
    /\ wCore \in 0 .. MaxCore
    /\ wW \in 1 .. MaxWindow
    /\ wExps \in SeqsUpTo(0 .. Pow2(ExpBits) - 1, MaxPairs)
    /\ WinRest
    /\ MxIdle /\ KernIdle /\ LockRest /\ ProverIdle /\ AsgRest
    /\ FinIdle /\ PreIdle
    /\ FftIdle

NextWindow == WLaunch \/ WWindow \/ WReturn

SpecWindow == InitWindow /\ [][NextWindow]_vars

\* a kernel of either priority, called again and again, beside other jobs
InitKernel ==
    /\ kPriority \in BOOLEAN
    /\ KernRest
    /\ MxIdle /\ WinIdle /\ LockRest /\ ProverIdle /\ AsgRest
    /\ FinIdle /\ PreIdle
    /\ FftIdle

NextKernel ==
    \/ \E j \in Others : OtherLock(j) \/ OtherAcquire(j) \/ OtherUnlock(j)
    \/ MeLock
    \/ MeUnlock
    \/ KCall
    \/ KEntry
    \/ \E ok \in BOOLEAN : KBuffer(ok) \/ KLaunch(ok) \/ KRead(ok)
    \/ KReturn

SpecKernel == InitKernel /\ [][NextKernel]_vars

\* every creator creates and drops MultiexpKernels, again and again
InitGpuLock ==
    LockRest /\ MxIdle /\ WinIdle /\ KernIdle /\ ProverIdle /\ AsgRest
    /\ FinIdle /\ PreIdle
    /\ FftIdle

NextGpuLock ==
    \E p \in Creators :
        \/ MkCreate(p)
        \/ MkLock(p)
        \/ \E ok \in BOOLEAN, n \in 0 .. MaxDevices : MkDevices(p, ok, n)
        \/ \E ok \in BOOLEAN : MkInitDevice(p, ok)
        \/ MkFinish(p)
        \/ MkDropKernels(p)
        \/ MkDropLock(p)

SpecGpuLock == InitGpuLock /\ [][NextGpuLock]_vars

\* one run of the pipeline on a batch of any size
InitProver ==
    /\ pK \in 0 .. MaxProvers
    /\ pPriority \in BOOLEAN
    /\ pDelta \in {"ok", "delta_g1", "delta_g2"}
    /\ ProverRest
    /\ MxIdle /\ WinIdle /\ KernIdle /\ LockRest /\ AsgRest
    /\ FinIdle /\ PreIdle
    /\ FftIdle

NextProver ==
    \/ PSynthesize
    \/ PFetch
    \/ PPrioLock
    \/ PSplit
    \/ \E ok \in BOOLEAN : PFft(ok)
    \/ \E ok \in BOOLEAN : PCpuMultiexp(ok) \/ PGpuMultiexp(ok) \/ PInput(ok)
    \/ PGpuSend
    \/ PCollect
    \/ PDrop
    \/ PAssemble

SpecProver == InitProver /\ [][NextProver]_vars

\* the stages between the parameter fetch and the final assembly
Locked == {"fft", "H", "L", "inputs"}

\* C33: a run with priority holds the PriorityLock exactly in the stages
\* from the polynomial phase to the input multiexps: it is taken after the
\* parameter fetch and before any FFT, held while every FFT and multiexp
\* runs, and released before a proof is assembled; a run without priority
\* never holds it.
C33_PriorityLockSpan ==
    /\ pPrioHeld = (pPriority /\ pPc \in Locked)
    /\ (pFfts > 0 \/ pMsmDone # {}) => pPc \in Locked \cup {"assemble", "done"}
    /\ (pProofs # <<>> \/ pOutcome # "running") => pPc = "done" /\ ~pPrioHeld

\* a run with priority is in its L phase, past the FFTs and the H
\* multiexps of every prover, and holds the lock
C33_Witness ==
    /\ pPriority /\ pPrioHeld
    /\ pPc = "L" /\ pK > percent
    /\ pFfts = pK
    /\ \A j \in 0 .. pK - 1 : <<"H", j>> \in pMsmDone
    /\ \E j \in 0 .. pK - 1 : <<"L", j>> \in pMsmDone

\* C34: the run never waits for the device lock against itself.  In the L
\* phase the wrapper made at line 607 holds no lock, so the GPU worker's
\* own wrapper can take it; in the input phase the wrappers of the H and L
\* workers hold none; and while multiexps are left some thread of the run
\* can step.
C34_NoSelfDeadlock ==
    /\ pPc = "H" => pGpuLock \in {"none", "H"}
    /\ pPc = "L" => pGpuLock \in {"none", "L"}
    /\ pPc = "inputs" => pGpuLock \in {"none", "inputs"}
    /\ pPc \in {"H", "L", "inputs"} => ENABLED NextProver

\* the input phase holds the device lock through its own wrapper, after
\* GPU workers that took the lock in both the H and the L phase
C34_Witness ==
    /\ pPc = "inputs" /\ pGpuLock = "inputs" /\ pStep >= 1
    /\ pK > percent
    /\ \E j \in percent .. pK - 1 :
          <<"H", j>> \in pMsmDone /\ <<"L", j>> \in pMsmDone

\* C35: a batch shorter than the CPU prefix of the H and L phases never
\* gets to a multiexp: the run of a batch of 0 or 1 circuits ends without
\* proofs, by the panic of provers[0] or of a_s[0..percent] unless the
\* polynomial phase has failed before.
C35_ShortBatchAborts ==
    pK < percent =>
        /\ pProofs = <<>>
        /\ pMsmDone = {} /\ pHs = <<>> /\ pLs = <<>> /\ pInputs = <<>>
        /\ pPc \in {"synth", "fetch", "prio", "fft", "done"}
        /\ pPc = "done" => pOutcome \in {"panic", "fft_err"}
        /\ (pPc = "done" /\ pFfts = pK) => pOutcome = "panic"

\* a batch of one circuit went through its polynomial phase and the run
\* was aborted at the split
C35_Witness ==
    /\ pK = 1 /\ pFfts = 1
    /\ pPc = "done" /\ pOutcome = "panic" /\ pProofs = <<>>

InitAssign ==
    /\ AsgRest
    /\ MxIdle /\ WinIdle /\ KernIdle /\ LockRest /\ ProverIdle /\ FinIdle
    /\ PreIdle
    /\ FftIdle

NextAssign ==
    \/ \E i \in Slots, r \in AllocResults : AAlloc(i, r) \/ AAllocInput(i, r)
    \/ \E i \in Slots : \E va, vb \in Variables : AEnforce(i, va, vb)
    \/ \E i, j \in Slots : AExtend(i, j)
    \/ ASynthesized
    \/ ASizeCheck

SpecAssign == InitAssign /\ [][NextAssign]_vars

-----------------------------------------------------------------------------
(* Claims on ProvingAssignment.                                            *)

\* C16: a stream of alloc and alloc_input calls cut into consecutive groups,
\* one assignment per group, folded by extend into an assignment holding the
\* constant-one input, equals the stream applied to a single assignment.
C16_ExtendEqualsDirect ==
    AllocOnly(aOps) => Combined(aAsg) = Full(aOps)

\* every group took a call, and the stream has both kinds of call
C16_Witness ==
    /\ AllocOnly(aOps)
    /\ \A i \in Slots : aOps[i] # <<>>
    /\ \E i, j \in Slots : aOps[i][1].op = "alloc" /\ aOps[j][1].op = "alloc_input"

\* C17: extend is associative on assignments that start with the
\* constant-one input.
C17_ExtendAssociative ==
    extend(extend(aAsg[1], aAsg[2]), aAsg[3])
        = extend(aAsg[1], extend(aAsg[2], aAsg[3]))

\* x and z hold a constraint whose B query uses the constant-one input
C17_Witness ==
    /\ aAsg[1].b_input_density.bv[1] /\ aAsg[3].b_input_density.bv[1]
    /\ aAsg[1].a # <<>> /\ aAsg[3].a # <<>>

Enforced(i) == {k \in 1 .. Len(aOps[i]) : aOps[i][k].op = "enforce"}

\* C28: a synthesised ProvingAssignment has the constant one at input 0
\* and as many constraints as the circuit enforced plus one per input;
\* the constraint of input j follows the circuit's constraints at position
\* j and is input_j * 0 = 0.
C28_OneConstraintPerInput ==
    aCheck # "none" =>
        \A i \in Slots :
            LET pa  == aAsg[i]
                nC  == Cardinality(Enforced(i))
                nIn == Len(pa.input_assignment)
            IN  /\ nIn >= 1 /\ pa.input_assignment[1] = one
                /\ Len(pa.a) = nC + nIn
                /\ \A k \in Enforced(i) : k <= Len(aOps[i]) - nIn
                /\ \A j \in 1 .. nIn :
                      /\ pa.a[nC + j] = pa.input_assignment[j]
                      /\ pa.b[nC + j] = 0
                      /\ pa.c[nC + j] = 0

\* a prover with a constraint of its circuit and several inputs, one of
\* them not zero, has been synthesised
C28_Witness ==
    /\ aCheck = "built"
    /\ \E i \in Slots :
          /\ Enforced(i) # {}
          /\ Len(aAsg[i].input_assignment) >= 2
          /\ aAsg[i].input_assignment[2] # 0

EnforceStep(i, va, vb) ==
    /\ aCount' = aCount + 1
    /\ aOps'[i] = Append(aOps[i], [op |-> "enforce", va |-> va, vb |-> vb])
    /\ \A j \in Slots \ {i} : aOps'[j] = aOps[j]

\* tracker d became e: the positions are the same, nothing was cleared, and
\* the only position newly marked is that of variable v when v is of `kind`
MarksOnly(d, e, v, kind) ==
    /\ Len(e.bv) = Len(d.bv)
    /\ \A p \in 1 .. Len(d.bv) :
          e.bv[p] = (d.bv[p] \/ (v[1] = kind /\ v[2] = p - 1))

\* C31: a call of enforce appends one element to each of a, b and c and
\* leaves input_assignment and aux_assignment alone; a_aux_density is
\* marked at the aux variable of A and nowhere else, b_input_density and
\* b_aux_density at the variable of B and nowhere else, so that an input
\* variable of A and the variables of C mark nothing.
C31_EnforceFrame ==
    [][\A i \in Slots : \A va, vb \in Variables :
          EnforceStep(i, va, vb) =>
              LET d == aAsg[i]
                  e == aAsg'[i]
              IN  /\ Len(e.a) = Len(d.a) + 1
                  /\ Len(e.b) = Len(d.b) + 1
                  /\ Len(e.c) = Len(d.c) + 1
                  /\ SubSeq(e.a, 1, Len(d.a)) = d.a
                  /\ SubSeq(e.b, 1, Len(d.b)) = d.b
                  /\ SubSeq(e.c, 1, Len(d.c)) = d.c
                  /\ e.input_assignment = d.input_assignment
                  /\ e.aux_assignment = d.aux_assignment
                  /\ MarksOnly(d.a_aux_density, e.a_aux_density, va, "Aux")
                  /\ MarksOnly(d.b_input_density, e.b_input_density,
                               vb, "Input")
                  /\ MarksOnly(d.b_aux_density, e.b_aux_density, vb, "Aux")
                  /\ \A j \in Slots \ {i} : aAsg'[j] = aAsg[j]]_vars

\* the last call on an assignment was an enforce with an input variable in
\* A and an aux variable in B, both of them in C: nothing is marked in the
\* aux density of a, and the aux and input densities of b differ
C31_Witness ==
    \E i \in Slots :
        /\ aCheck = "none"
        /\ aOps[i] # <<>>
        /\ LET o == aOps[i][Len(aOps[i])]
           IN  /\ o.op = "enforce"
               /\ o.va[1] = "Input" /\ o.vb = <<"Aux", 0>>
        /\ aAsg[i].a_aux_density = [bv |-> <<FALSE>>, total_density |-> 0]
        /\ aAsg[i].b_aux_density = [bv |-> <<TRUE>>, total_density |-> 1]
        /\ aAsg[i].b_input_density.total_density = 0

\* C32: a call of alloc or alloc_input whose closure returns an error
\* returns the error and leaves every ProvingAssignment as it was: no
\* assignment element is pushed and no density tracker grows.
C32_FailedAllocChangesNothing ==
    [][(aCount' = aCount + 1 /\ aRet' = "Err") =>
          /\ aAsg' = aAsg
          /\ \A i \in Slots :
                /\ Len(aAsg'[i].input_assignment)
                      = Len(aAsg[i].input_assignment)
                /\ Len(aAsg'[i].aux_assignment) = Len(aAsg[i].aux_assignment)
                /\ Len(aAsg'[i].a_aux_density.bv)
                      = Len(aAsg[i].a_aux_density.bv)
                /\ Len(aAsg'[i].b_aux_density.bv)
                      = Len(aAsg[i].b_aux_density.bv)
                /\ Len(aAsg'[i].b_input_density.bv)
                      = Len(aAsg[i].b_input_density.bv)]_vars

\* a closure failed on a run that had allocated an aux variable and an
\* input before
C32_Witness ==
    /\ aRet = "Err"
    /\ aCheck = "none"
    /\ \E i \in Slots :
          /\ Len(aAsg[i].aux_assignment) >= 1
          /\ Len(aAsg[i].input_assignment) >= 2

\* the closure on one tuple, for every r, s and either delta the identity
InitAssembly ==
    /\ fR \in Fr /\ fS \in Fr
    /\ fVk \in {VkOf(delta) : delta \in {"ok", "delta_g1", "delta_g2"}}
    /\ FinRest
    /\ MxIdle /\ WinIdle /\ KernIdle /\ LockRest /\ ProverIdle /\ AsgRest
    /\ PreIdle
    /\ FftIdle

NextAssembly ==
    \/ FCheck
    \/ FInitA
    \/ FInitB
    \/ FInitC
    \/ \E ok \in BOOLEAN : FAnswerA(ok) \/ FAnswerB(ok) \/ FAddHL(ok)
    \/ FProof

SpecAssembly == InitAssembly /\ [][NextAssembly]_vars

-----------------------------------------------------------------------------
(* Claims on the assembly of a proof.                                      *)

\* the scalar multiple and the sum of generic elements, for the formulas
Plus3(x, y, z) == GAdd(GAdd(x, y), z)

\* C19: with non-identity deltas the proof is
\*   g_a = r*delta_g1 + alpha_g1 + (a_inputs + a_aux)
\*   g_b = s*delta_g2 + beta_g2 + (b_g2_inputs + b_g2_aux)
\*   g_c = (r*s)*delta_g1 + s*alpha_g1 + r*beta_g1 + s*(a_inputs + a_aux)
\*           + r*(b_g1_inputs + b_g1_aux) + H + L
\* for every r and s.
C19_AssemblyFormulas ==
    (fPc = "done" /\ fResult = "Ok") =>
        /\ fVk.delta_g1 # GZero /\ fVk.delta_g2 # GZero
        /\ fProof.a = Plus3(GMul(Gen("delta_g1"), fR), Gen("alpha_g1"),
                             GAdd(Gen("a_inputs"), Gen("a_aux")))
        /\ fProof.b = Plus3(GMul(Gen("delta_g2"), fS), Gen("beta_g2"),
                             GAdd(Gen("b_g2_inputs"), Gen("b_g2_aux")))
        /\ fProof.c =
             GAdd(Plus3(GMul(Gen("delta_g1"), (fR * fS) % FieldP),
                        GMul(Gen("alpha_g1"), fS),
                        GMul(Gen("beta_g1"), fR)),
                  GAdd(Plus3(GMul(GAdd(Gen("a_inputs"), Gen("a_aux")), fS),
                             GMul(GAdd(Gen("b_g1_inputs"), Gen("b_g1_aux")),
                                  fR),
                             Gen("h")),
                       Gen("l")))

\* a proof was assembled for r and s distinct and not zero
C19_Witness ==
    /\ fPc = "done" /\ fResult = "Ok"
    /\ fR # 0 /\ fS # 0 /\ fR # fS

\* one call of a low-priority run, retried by the wrapper, beside the
\* high-priority jobs
InitPreempt ==
    /\ mxN \in 0 .. MaxN
    /\ mxSkip \in 0 .. MaxSkip
    /\ mxUNum \in 0 .. UDen
    /\ mxD \in 1 .. MaxDevices
    /\ mxTile = TileLen
    /\ MxRest
    /\ PreIdle
    /\ WinIdle /\ KernIdle /\ LockRest /\ ProverIdle /\ AsgRest /\ FinIdle
    /\ FftIdle

NextPreempt ==
    \/ \E j \in Others : OtherLock(j) \/ OtherAcquire(j) \/ OtherUnlock(j)
    \/ MxSplit
    \/ \E k \in 1 .. MaxDevices : QTile(k)
    \/ MxCollect
    \/ QRetry

SpecPreempt == InitPreempt /\ [][NextPreempt]_vars

\* the polynomial phase of a batch
InitFft ==
    /\ tK \in 0 .. MaxProvers
    /\ FftRest
    /\ MxIdle /\ WinIdle /\ KernIdle /\ LockRest /\ ProverIdle /\ AsgRest
    /\ FinIdle /\ PreIdle

NextFft ==
    \/ TStart
    \/ TScope
    \/ \E t \in Threads, built \in BOOLEAN : TBegin(t, built)
    \/ \E t \in Threads : TEnd(t)
    \/ TJoin
    \/ TClosureEnd
    \/ TDrop

SpecFft == InitFft /\ [][NextFft]_vars

-----------------------------------------------------------------------------
(* Claims on the polynomial phase.                                         *)

\* C26: each FFT driver serves at most one transform at a time, driver #0
\* those of a and c and driver #1 those of b, and a transform of c is in
\* progress only when the ifft and coset_fft of a and of b have returned.
C26_DriverZeroOneAtATime ==
    /\ \A d \in 0 .. 1 : Cardinality(tOp[d]) <= 1
    /\ \A o \in tOp[0] : o.drv = 0 /\ o.poly \in {"a", "c"}
    /\ \A o \in tOp[1] : o.drv = 1 /\ o.poly = "b"
    /\ (\E o \in tOp[0] : o.poly = "c" \/ o.op = "icoset_fft") =>
          /\ tOp[1] = {}
          /\ \A poly \in {"a", "b"}, op \in {"ifft", "coset_fft"} :
                \E o \in tDone : o.poly = poly /\ o.op = op

\* c's coset_fft is in progress on driver #0 for a later prover of the
\* batch
C26_Witness ==
    /\ Transform("c", "coset_fft", 0) \in tOp[0]
    /\ tProver >= 1

\* C27: the polynomial phase is never stuck: until the drivers have been
\* dropped some thread can take a step, so no transform waits for a device
\* lock that is not going to be released.
C27_PhaseNeverStuck == tMain # "done" => ENABLED NextFft

-----------------------------------------------------------------------------
(* Claims on preemption.                                                   *)

FairPreempt ==
    /\ WF_vars(MxSplit)
    /\ WF_vars(\E k \in 1 .. MaxDevices : QTile(k))
    /\ WF_vars(MxCollect)
    /\ WF_vars(QRetry)

SpecRetry == InitPreempt /\ [][NextPreempt]_vars /\ FairPreempt

-----------------------------------------------------------------------------
(* Claims on the proving pipeline.                                         *)

\* C1: a successful run on a batch of k circuits returns exactly k proofs.
C1_OneProofPerCircuit ==
    (pPc = "done" /\ pOutcome = "ok") => Len(pProofs) = pK

\* C2: in a successful run, proof i is assembled from prover i's own H
\* multiexp, L multiexp and input multiexps, and from r_s[i] and s_s[i].
C2_ProofFromOwnProver ==
    (pPc = "done" /\ pOutcome = "ok") =>
        \A t \in 1 .. Len(pProofs) :
            /\ pProofs[t].h = t - 1
            /\ pProofs[t].l = t - 1
            /\ pProofs[t].inputs = t - 1
            /\ pProofs[t].r = t - 1
            /\ pProofs[t].s = t - 1

\* C12: with delta_g1 or delta_g2 the identity, every batch ends with the
\* UnexpectedIdentity error and no proof.
C12_IdentityDeltaRejected ==
    (pPc = "done" /\ pK >= 1 /\ pDelta # "ok") =>
        (pOutcome = "identity" /\ pProofs = <<>>)

\* C13: with delta_g1 the identity, no FFT kernel and no multiexp kernel is
\* used at any time of the run: the rejection comes before any GPU work.
C13_IdentityBeforeGpuWork ==
    pDelta = "delta_g1" => ~GpuWorkStarted

\* C14: a run in which the H or L multiexp of any prover failed ends with an
\* error and without proofs.
C14_FailedHLFailsBatch ==
    (pPc = "done" /\ pFailedHL # {}) => (pOutcome # "ok" /\ pProofs = <<>>)

C22_LSendsBothInOrder ==
    (pPc = "L" /\ pCpuDone = percent) =>
        /\ Len(pCpuCh) = percent
        /\ \A i \in 1 .. percent :
              pCpuCh[i].kind = "L" /\ pCpuCh[i].of = i - 1

\* the multiexps of prover i among those of a worker's list
MadeFor(list, i) == {n \in 1 .. Len(list) : list[n].of = i}

\* C23: in the H and in the L phase the CPU worker computes the multiexps
\* of provers 0 and 1, in that order, the GPU worker those of provers
\* 2 .. k-1, in that order, and once both have ended every prover's
\* multiexp has been computed exactly once.
C23_EachProverOnce ==
    pPc \in {"H", "L"} =>
        /\ pK >= percent
        /\ \A n \in 1 .. Len(pCpuList) :
              pCpuList[n] = Msm(pPc, n - 1, "cpu", pCpuList[n].ok)
        /\ \A n \in 1 .. Len(pGpuList) :
              pGpuList[n] = Msm(pPc, percent + n - 1, "gpu", pGpuList[n].ok)
        /\ (pCpuDone = percent /\ pGpuPc = "end") =>
              \A i \in 0 .. pK - 1 :
                  Cardinality(MadeFor(pCpuList, i))
                      + Cardinality(MadeFor(pGpuList, i)) = 1

\* both workers of the L phase of a batch with several GPU provers have
\* ended
C23_Witness ==
    /\ pPc = "L" /\ pCpuDone = percent /\ pGpuPc = "end"
    /\ pK >= percent + 2 /\ Len(pGpuList) = pK - percent

-----------------------------------------------------------------------------
(* Claims on MultiexpKernel::create.                                       *)

\* C10: at most one MultiexpKernel exists on the host at any moment; a
\* creator enumerates devices only while it holds the GPULock, and holds it
\* for as long as its MultiexpKernel exists.
C10_OneMultiexpKernel ==
    /\ Cardinality({p \in Creators : MkExists(p)}) <= 1
    /\ \A p \in Creators :
          mkPc[p] \in {"devices", "kernels", "live", "dropping"}
              => glOwner = {p}

\* C10 witness: one creator's MultiexpKernel exists while another creator
\* is inside create, waiting for the lock.
C10_Witness ==
    \E p, q \in Creators : p # q /\ mkPc[p] = "live" /\ mkPc[q] = "lock"

\* C11: a MultiexpKernel that create returned owns at least one
\* SingleMultiexpKernel, however many devices failed to initialise; a create
\* that returned an error built no MultiexpKernel and holds no GPULock.
C11_KernelsNonEmpty ==
    \A p \in Creators :
        /\ mkPc[p] = "live" => (mkResult[p] = "Ok" /\ mkKernels[p] >= 1)
        /\ mkResult[p] = "Ok" => (MkExists(p) \/ mkPc[p] = "idle")
        /\ mkResult[p] = "Err" => (mkPc[p] = "idle" /\ p \notin glOwner)

\* one create failed on every device, another skipped a device and returned
C11_Witness ==
    \E p, q \in Creators :
        /\ mkPc[p] = "live" /\ mkFailed[p] >= 1
        /\ mkResult[q] = "Err" /\ mkFailed[q] >= 1

-----------------------------------------------------------------------------
(* Claims on the control flow of SingleMultiexpKernel::multiexp.           *)

\* C8: a call that finds should_break(self.priority) true at its entry
\* returns GPUTaken at once, with no device buffer created and no kernel
\* launched; and no call consults the flag more than once.
C8_BreakAtEntryOnly ==
    [][ /\ (kPc = "entry" /\ kPc' # "entry" /\ should_break(kPriority))
            => (kPc' = "done" /\ kResult' = "GPUTaken")
        /\ kResult' = "GPUTaken" => (kBuffers' = 0 /\ ~kLaunched')
        /\ kPolls' <= 1 ]_vars

\* C8 witness: a call refused with GPUTaken at its entry.
C8_Witness ==
    kPc = "done" /\ kResult = "GPUTaken" /\ kPolls = 1 /\ kBuffers = 0

\* C9: a priority kernel never returns GPUTaken, and a kernel without
\* priority returns it only at a moment when a high-priority job other than
\* its own run holds or awaits the PriorityLock.
C9_OnlyHigherPriorityPreempts ==
    [][ (kResult' = "GPUTaken" /\ kResult # "GPUTaken")
            => (~kPriority /\ (plHolder \cup plWaiting) \cap Others # {}) ]_vars

\* C9 witness: a priority kernel completes a call while another
\* high-priority job waits for the lock.
C9_Witness ==
    kPriority /\ kResult = "Ok" /\ plWaiting \cap Others # {}

\* C9 witness, second half: a kernel without priority has been refused.
C9_WitnessRefused ==
    ~kPriority /\ kResult = "GPUTaken" /\ plHolder \cap Others # {}

-----------------------------------------------------------------------------
(* Claims on the window arithmetic.                                        *)

\* C6: for every window size, every core_count >= 1 and every input, the
\* value SingleMultiexpKernel::multiexp returns is the naive sum of
\* e_i * B_i.
C6_WindowedEqualsNaive ==
    (wPc = "done" /\ wCore >= 1) => wAcc = NaiveSum(wExps)

RECURSIVE WidthsUpTo(_, _)
\* the sum of the first j widths
WidthsUpTo(ws, j) == IF j = 0 THEN 0 ELSE ws[j] + WidthsUpTo(ws, j - 1)

RECURSIVE WindowTotal(_, _, _, _)
\* the sum of the partial sums of window i over the groups below g
WindowTotal(results, g, nw, i) ==
    IF g = 0 THEN 0
    ELSE results[(g - 1) * nw + i + 1] + WindowTotal(results, g - 1, nw, i)

RECURSIVE AccAfter(_, _, _, _, _)
\* the accumulator after the first j windows, when each window's partial
\* sums are added after that window's doublings
AccAfter(results, ws, j, ng, nw) ==
    IF j = 0 THEN 0
    ELSE AccAfter(results, ws, j - 1, ng, nw) * Pow2(ws[j])
             + WindowTotal(results, ng, nw, j - 1)

\* C29: in the loop over the windows every width is at least 1 and is
\* min(w, exp_bits - bits so far), exp_bits - bits never goes below zero,
\* the widths of the ceil(exp_bits / w) windows sum to exp_bits, and every
\* window adds its num_groups partial sums after its doublings.
C29_WindowWidths ==
    LET nw == num_windows(wW)
        ng == calc_num_groups(wCore, nw)
    IN  wPc \in {"acc", "done"} =>
            /\ Len(wWidths) = wI /\ wI <= nw
            /\ nw = CeilDiv(ExpBits, wW)
            /\ \A j \in 1 .. wI :
                  /\ wWidths[j] >= 1
                  /\ wWidths[j] = Min(wW, ExpBits - WidthsUpTo(wWidths, j - 1))
            /\ wBits = WidthsUpTo(wWidths, wI)
            /\ wBits <= ExpBits
            /\ wI < nw => wBits < ExpBits
            /\ wPc = "done" => (wI = nw /\ wBits = ExpBits)
            /\ wAcc = AccAfter(wResults, wWidths, wI, ng, nw)

\* a call with several groups whose last window is shorter than the
\* others has returned a sum that is not zero
C29_Witness ==
    /\ wPc = "done" /\ wAcc # 0
    /\ calc_num_groups(wCore, num_windows(wW)) >= 2
    /\ Len(wWidths) >= 2
    /\ wWidths[Len(wWidths)] < wW

-----------------------------------------------------------------------------
(* Claims on MultiexpKernel::multiexp and only_cpu_multiexp.               *)

\* C3: a multiexp call that returns Ok returns the sum over all i in [0,n)
\* of exps[i] * bases[skip+i], every index exactly once, for every n, skip
\* and CPU utilisation.
C3_MultiexpSumsEveryIndexOnce ==
    (mxPc = "done" /\ mxResult.ok) => mxResult.val = ContractSum(mxSkip, mxN)

\* C4: once the GPU slice is split there are at most num_devices chunks, and
\* every chunk is handed to exactly one kernel, no kernel taking two chunks:
\* no chunk is left without a kernel.
C4_EveryChunkGetsAKernel ==
    mxPc # "start" =>
        /\ Len(mxChunks) <= mxD
        /\ \A c \in 1 .. Len(mxChunks) :
              Cardinality({j \in 1 .. Len(mxJobs) :
                              mxJobs[j].chunk = mxChunks[c]}) = 1
        /\ \A i, j \in 1 .. Len(mxJobs) :
              mxJobs[i].kern = mxJobs[j].kern => i = j

\* C5: when any kernel call of the run returned an error, multiexp returns
\* an error, never a sum of the chunks that succeeded.
C5_FailedTileFailsMultiexp ==
    (mxPc = "done" /\ \E c \in mxCalls : ~c.ok) => ~mxResult.ok

\* C5 witness: a finished run in which one chunk's kernel call failed while
\* another chunk's call succeeded.
C5_Witness ==
    /\ mxPc = "done"
    /\ \E c1, c2 \in mxCalls : ~c1.ok /\ c2.ok /\ c1.chunk # c2.chunk

\* the i-th tile of a chunk: mxTile elements from (i-1) * mxTile on, or what
\* is left of the chunk
TileAt(chunk, i) ==
    Slice(chunk.b + (i - 1) * mxTile, chunk.e + (i - 1) * mxTile,
          Min(mxTile, chunk.len - (i - 1) * mxTile))

\* C25: the kernel calls made for a device chunk of length L are those of
\* its tiles 1, 2, .. in order, each of at most the tile length; the
\* accumulator is the sum of the tiles done; a chunk that ended Ok took
\* ceil(L / tile length) calls and its result is the sum of the chunk; a
\* chunk that failed made no call after the failed one.
C25_TilesCoverChunk ==
    \A k \in 1 .. Len(mxJobs) :
        LET job   == mxJobs[k]
            made  == {c \in mxCalls : c.chunk = k}
            tried == IF job.st = "err" THEN job.pos + 1 ELSE job.pos
        IN  /\ made = {[kern |-> job.kern, chunk |-> k,
                        tile |-> TileAt(job.chunk, i), ok |-> i <= job.pos] :
                           i \in 1 .. tried}
            /\ \A c \in made : c.tile.len >= 1 /\ c.tile.len <= mxTile
            /\ tried <= CeilDiv(job.chunk.len, mxTile)
            /\ job.acc = SeqSum([i \in 1 .. job.pos |->
                                    SliceSum(TileAt(job.chunk, i))], 1)
            /\ job.st = "run" => job.pos < CeilDiv(job.chunk.len, mxTile)
            /\ job.st = "ok" =>
                  /\ job.pos = CeilDiv(job.chunk.len, mxTile)
                  /\ job.acc = SliceSum(job.chunk)

\* a chunk of several tiles has ended Ok
C25_Witness ==
    \E k \in 1 .. Len(mxJobs) :
        /\ mxJobs[k].st = "ok" /\ mxJobs[k].pos >= 2
        /\ mxJobs[k].chunk.len > mxTile

\* C7: on the same N pairs, with skip = 0 and n = N, only_cpu_multiexp and
\* MultiexpKernel::multiexp return the same group element.
C7_CpuAndGpuAgree ==
    (mxSkip = 0 /\ mxPc = "done" /\ mxResult.ok /\ cpuResult.ok)
        => cpuResult.val = mxResult.val

\* C24: for N >= 1, only_cpu_multiexp runs the CPU multiexp on each of the
\* ceil(N / ceil(N/used_core)) chunks of the input, each with core ids no
\* other chunk has, and returns the sum over every index of [0,N) once.
C24_CpuSumsEveryChunk ==
    (cpuResult.ok /\ mxN >= 1) =>
        LET pcs == CeilDiv(mxN, used_core)
        IN  /\ Len(cpuCalls) = CeilDiv(mxN, pcs)
            /\ \A k \in 1 .. Len(cpuCalls) :
                  /\ cpuCalls[k].chunk.len = Min(pcs, mxN - (k - 1) * pcs)
                  /\ cpuCalls[k].core_ids # {}
            /\ \A k, m \in 1 .. Len(cpuCalls) :
                  k # m => cpuCalls[k].core_ids \cap cpuCalls[m].core_ids = {}
            /\ cpuResult.val = ContractSum(mxSkip, mxN)

=============================================================================
